---------------------------- MODULE Spec2Model ----------------------------
(***************************************************************************)
(* A model of happyfool-bot: the chat dispatcher (bot.py), its handlers    *)
(* (custom commands, points, sfx, raffle, bets, slots), the data access    *)
(* layers (db/dals.py) and the command parser (utils.py).                  *)
(*                                                                         *)
(* A chat line is a sequence of whitespace-delimited tokens and a token is *)
(* a sequence of one-character strings, so that str.split, str.lower,      *)
(* re.sub and int() are computed character by character.                   *)
(***************************************************************************)
EXTENDS Integers, Sequences, FiniteSets, TLC

\* The fields of the model's records. Every record of the model writes its
\* fields in the order of this list, which is the order the records are
\* kept in, so that a record is never reordered after it was built.
Fields ==
    [name |-> {},
     is_subscriber |-> {},
     is_mod |-> {},
     is_broadcaster |-> {},
     echo |-> {},
     author |-> {},
     content |-> {},
     kind |-> {},
     cmd |-> {},
     op |-> {},
     user |-> {},
     x |-> {},
     y |-> {},
     creator |-> {},
     text |-> {},
     quantity |-> {},
     before |-> {},
     handlers |-> {},
     result |-> {},
     raised |-> {},
     user_commands |-> {},
     user_points |-> {},
     sfx_commands |-> {},
     number_points |-> {},
     number_bet |-> {},
     outcome |-> {},
     total_points |-> {},
     slots |-> {},
     points_win |-> {},
     played |-> {},
     play_saw |-> {},
     self |-> {},
     db |-> {},
     sent |-> {},
     trace |-> {},
     points |-> {},
     minutes |-> {},
     audio_file |-> {},
     cost |-> {},
     user_cooldown |-> {},
     global_cooldown |-> {},
     count |-> {},
     pick |-> {},
     bet |-> {},
     s1 |-> {},
     s2 |-> {},
     s3 |-> {},
     obs_websocket |-> {},
     attributes |-> {},
     points_enabled |-> {},
     sfx_enabled |-> {},
     sfx_global_cooldown |-> {},
     sfx_user_cooldown |-> {},
     jokes_filename |-> {},
     jokes_lastused |-> {},
     raffle_enabled |-> {},
     raffle_is_subscriber_only |-> {},
     raffle_wordkey |-> {},
     raffle_participants |-> {},
     raffle_picked |-> {},
     raffle_lastpick |-> {},
     bets_enabled |-> {},
     bets_double_chance |-> {},
     bets_triple_chance |-> {},
     bets_lose_chance |-> {},
     bets_cooldowns |-> {},
     slots_enabled |-> {},
     slots_cooldowns |-> {},
     mediaState |-> {},
     id |-> {},
     time_now |-> {}]

VARIABLES
    now,        \* int(time()): the wall clock in seconds
    self,       \* the Bot instance's in-memory attributes
    db,         \* the three tables behind the data access layers
    message,    \* the event being handled in this step (observation)
    sent,       \* the replies ctx.send produced in this step (observation)
    trace,      \* what the handlers of this step did (observation)
    call,       \* the data access call made in this step (observation)
    tasks,      \* the handler invocations suspended at an await
    scene       \* the remote's scene: its sound sources and their media state

vars == <<now, self, db, message, sent, trace, call, tasks, scene>>

(***************************************************************************)
(* Text: characters, tokens, str.lower, re.sub, int()                      *)
(***************************************************************************)

LowerAlnum ==
    {"a", "b", "c", "d", "e", "f", "g", "h", "i", "j", "k", "l", "m",
     "n", "o", "p", "q", "r", "s", "t", "u", "v", "w", "x", "y", "z",
     "0", "1", "2", "3", "4", "5", "6", "7", "8", "9"}

Digits == {"0", "1", "2", "3", "4", "5", "6", "7", "8", "9"}

\* str.lower() on one character, over the upper-case letters the model uses.
lower_char(c) ==
    CASE c = "A" -> "a" [] c = "B" -> "b" [] c = "H" -> "h"
      [] c = "K" -> "k" [] c = "S" -> "s" [] c = "T" -> "t"
      [] OTHER -> c

lower(s) == [i \in 1..Len(s) |-> lower_char(s[i])]

\* re.sub(r'[^a-z0-9]', '', s): drop every character outside [a-z0-9].
RECURSIVE sub_non_alnum(_)
sub_non_alnum(s) ==
    IF s = <<>> THEN <<>>
    ELSE IF Head(s) \in LowerAlnum
         THEN <<Head(s)>> \o sub_non_alnum(Tail(s))
         ELSE sub_non_alnum(Tail(s))

\* s starts with the prefix, character for character: how the command
\* framework tells a command line from chat.
starts_with(s, prefix) ==
    /\ Len(s) >= Len(prefix)
    /\ SubSeq(s, 1, Len(prefix)) = prefix

\* s without its leading prefix, if it has one.
sub_prefix(s, prefix) ==
    IF prefix # <<>> /\ starts_with(s, prefix)
    THEN SubSeq(s, Len(prefix) + 1, Len(s))
    ELSE s

\* Python's None and a value that is not None: an optional is the empty
\* sequence or the sequence of its one value.
None == <<>>

Some(x) == <<x>>

\* re.search(r"^%s" % prefix, s): the prefix is put into the pattern as it
\* is, so each of its characters stands for itself except the dot, which
\* stands for any character.
re_search_start(pattern, s) ==
    /\ Len(s) >= Len(pattern)
    /\ \A i \in 1..Len(pattern) : pattern[i] = "." \/ pattern[i] = s[i]

\* re.sub(r"^%s" % prefix, '', s): drop what the pattern matches at the
\* start, if it matches.
re_sub_start(pattern, s) ==
    IF re_search_start(pattern, s)
    THEN SubSeq(s, Len(pattern) + 1, Len(s))
    ELSE s

\* str.split(): the words between runs of blanks.
RECURSIVE split(_)
split(s) ==
    IF s = <<>> THEN <<>>
    ELSE IF Head(s) = " " THEN split(Tail(s))
    ELSE LET blanks == {i \in 1..Len(s) : s[i] = " "}
             n == IF blanks = {} THEN Len(s)
                  ELSE (CHOOSE i \in blanks : \A j \in blanks : i <= j) - 1
         IN  <<SubSeq(s, 1, n)>> \o split(SubSeq(s, n + 1, Len(s)))

\* How a call ended: what it returned, or the exception it raised.
Outcome(result, raised) == [result |-> result, raised |-> raised]

\* utils.isolate_command on a line given as its characters.  The pattern
\* is searched in the line; the first word is lower-cased, stripped to
\* [a-z0-9], and what the pattern matches at its start is removed.
\* Unpacking (command, *arguments) from no word at all raises ValueError.
isolate_command_text(pfx, msg) ==
    IF re_search_start(pfx, msg)
    THEN IF split(msg) = <<>>
         THEN Outcome(None, "ValueError")
         ELSE Outcome(Some(re_sub_start(pfx, sub_non_alnum(lower(split(msg)[1])))), "")
    ELSE Outcome(None, "")

\* utils.isolate_command on a line given as its tokens, for the lines of
\* the chat, which start with their first word.
isolate_command(pfx, tokens) ==
    IF tokens # <<>> /\ re_search_start(pfx, tokens[1])
    THEN Some(re_sub_start(pfx, sub_non_alnum(lower(tokens[1]))))
    ELSE None

\* `if command:` is false for None and for the empty string.
truthy(command) == command # None /\ command[1] # <<>>

digit_value(c) ==
    CASE c = "0" -> 0 [] c = "1" -> 1 [] c = "2" -> 2 [] c = "3" -> 3
      [] c = "4" -> 4 [] c = "5" -> 5 [] c = "6" -> 6 [] c = "7" -> 7
      [] c = "8" -> 8 [] c = "9" -> 9 [] OTHER -> 0

RECURSIVE digits_value(_)
digits_value(s) ==
    IF s = <<>> THEN 0
    ELSE 10 * digits_value(SubSeq(s, 1, Len(s) - 1)) + digit_value(s[Len(s)])

all_digits(s) == s # <<>> /\ \A i \in 1..Len(s) : s[i] \in Digits

\* int(token) succeeds on an optional sign followed by decimal digits and
\* raises ValueError otherwise.
int_ok(s) ==
    \/ all_digits(s)
    \/ Len(s) >= 2 /\ s[1] \in {"-", "+"} /\ all_digits(Tail(s))

int(s) ==
    IF s[1] = "-" THEN 0 - digits_value(Tail(s))
    ELSE IF s[1] = "+" THEN digits_value(Tail(s))
    ELSE digits_value(s)


(***************************************************************************)
(* People and chat lines                                                   *)
(***************************************************************************)

\* The nick of the channel owner, of a subscriber and of a plain viewer.
Streamer == <<"h", "f">>
Ali == <<"a", "l", "i">>
Bob == <<"b", "o", "b">>

\* twitchio's Chatter: the name and the badges a handler reads.
Author(name, sub, mod, bc) ==
    [name |-> name, is_subscriber |-> sub, is_mod |-> mod, is_broadcaster |-> bc]

AsStreamer == Author(Streamer, FALSE, FALSE, TRUE)
AsAli == Author(Ali, TRUE, FALSE, FALSE)
AsBob == Author(Bob, FALSE, FALSE, FALSE)

\* twitchio's Message: echo, author and content (the content as its tokens).
Message(author, content) == [echo |-> FALSE, author |-> author, content |-> content]

NoMessage == [echo |-> TRUE, author |-> Author(<<>>, FALSE, FALSE, FALSE), content |-> <<>>]

\* config user_commands_prefix
prefix == <<"!">>

\* A reply handed to ctx.send: which text, and the values formatted into it.
Reply(kind, cmd, user, x, y) ==
    [kind |-> kind, cmd |-> cmd, user |-> user, x |-> x, y |-> y, text |-> <<>>]

EmptyTrace ==
    [handlers |-> <<>>,        \* the handlers entered, in order
     raised |-> "",            \* the exception that ended the handler, if any
     user_points |-> 0,        \* bets: the balance snapshot
     number_points |-> 0,      \* bets: the stake
     number_bet |-> 0,         \* bets: the draw in [1,100]
     outcome |-> "",           \* bets: the band the draw fell in
     total_points |-> 0,       \* bets: the balance announced
     slots |-> <<>>,           \* slots: the three reel positions drawn
     points_win |-> 0,         \* slots: the payout
     played |-> <<>>,          \* play_sound calls: the audio files
     play_saw |-> <<>>]        \* what was stored when play_sound was called

\* A data access call: the method, its arguments and the balance row the
\* user had before it (an optional).
Call(op, user, quantity, before) ==
    [op |-> op, user |-> user, quantity |-> quantity, before |-> before]

NoCall == Call("", <<>>, 0, None)

\* The part of the program a handler reads and writes.
World(s, d) == [self |-> s, db |-> d, sent |-> <<>>, trace |-> EmptyTrace]

send(w, reply) == [w EXCEPT !.sent = Append(@, reply)]

enter(w, handler) == [w EXCEPT !.trace.handlers = Append(@, handler)]

raise(w, error) == [w EXCEPT !.trace.raised = error]

\* The instance has the attribute: reading one it does not have raises
\* AttributeError.
has(w, name) == name \in w.self.attributes

\* self.<name> = ... makes the instance have the attribute.
assigned(w, names) == [w EXCEPT !.self.attributes = @ \cup names]

(***************************************************************************)
(* db/dals.py: a table is a function from its unique key to a row          *)
(***************************************************************************)

\* UserPoints(user=user): points and minutes default to 0.
UserPointsDAL_add_user(table, user) ==
    table @@ (user :> [points |-> 0, minutes |-> 0])

UserPointsDAL_get_user(table, user) ==
    IF user \in DOMAIN table THEN Some(table[user]) ELSE None

UserPointsDAL_delete_user(table, user) ==
    [u \in DOMAIN table \ {user} |-> table[u]]

UserPointsDAL_get_points(table, user) ==
    IF user \in DOMAIN table THEN table[user].points ELSE 0

RECURSIVE UserPointsDAL_increment_points(_, _, _)
UserPointsDAL_increment_points(table, user, quantity) ==
    IF user \in DOMAIN table
    THEN [table EXCEPT ![user].points = @ + quantity]
    ELSE UserPointsDAL_increment_points(UserPointsDAL_add_user(table, user), user, quantity)

RECURSIVE UserPointsDAL_increment_minutes(_, _, _)
UserPointsDAL_increment_minutes(table, user, quantity) ==
    IF user \in DOMAIN table
    THEN [table EXCEPT ![user].minutes = @ + quantity]
    ELSE UserPointsDAL_increment_minutes(UserPointsDAL_add_user(table, user), user, quantity)

\* A decrement that forgets the floor.
RECURSIVE decrement_points_no_floor(_, _, _)
decrement_points_no_floor(table, user, quantity) ==
    IF user \in DOMAIN table
    THEN [table EXCEPT ![user].points = @ - quantity]
    ELSE decrement_points_no_floor(UserPointsDAL_add_user(table, user), user, quantity)

RECURSIVE UserPointsDAL_decrement_points(_, _, _)
UserPointsDAL_decrement_points(table, user, quantity) ==
    IF user \in DOMAIN table
    THEN IF (table[user].points - quantity) <= 0
         THEN [table EXCEPT ![user].points = 0]
         ELSE [table EXCEPT ![user].points = @ - quantity]
    ELSE UserPointsDAL_decrement_points(UserPointsDAL_add_user(table, user), user, quantity)

\* int(minutes/60)
UserPointsDAL_get_hours(table, user) ==
    IF user \in DOMAIN table THEN table[user].minutes \div 60 ELSE 0

\* get_rank that keeps the first rank reached, not the last.
RECURSIVE get_rank_first(_, _)
get_rank_first(ranks, points) ==
    IF ranks = <<>> THEN "Sem rank"
    ELSE IF points >= int(Head(ranks)[2]) THEN Head(ranks)[1]
    ELSE get_rank_first(Tail(ranks), points)

\* The loop of get_rank over ranks.items(), each item a pair of the rank's
\* name and its minimum as the configuration writes it; result is an
\* optional.
RECURSIVE get_rank_items(_, _, _)
get_rank_items(items, points, result) ==
    IF items = <<>> THEN result
    ELSE get_rank_items(Tail(items), points,
                        IF points >= int(Head(items)[2]) THEN Some(Head(items)[1])
                        ELSE result)

get_rank(ranks, points) ==
    IF get_rank_items(ranks, points, None) = None THEN "Sem rank"
    ELSE get_rank_items(ranks, points, None)[1]

\* UserCommand(name, creator, timestamp, text): count defaults to 0.
UserCommandDAL_create_command(table, name, creator, text) ==
    table @@ (name :> [creator |-> creator, text |-> text, count |-> 0])

UserCommandDAL_get_command_by_name(table, name) ==
    IF name \in DOMAIN table THEN Some(table[name]) ELSE None

UserCommandDAL_update_command(table, name, text) ==
    [table EXCEPT ![name].text = text]

UserCommandDAL_delete_command(table, name) ==
    [n \in DOMAIN table \ {name} |-> table[n]]

UserCommandDAL_increment_counter(table, name) ==
    [table EXCEPT ![name].count = @ + 1]

\* SFXCommandDAL.create_command's defaults for cost and the two cooldowns.
SfxDefault == 60

SFXCommandDAL_create_command(table, name, audio_file, cost, user_cooldown, global_cooldown) ==
    table @@ (name :> [audio_file |-> audio_file, cost |-> cost,
                       user_cooldown |-> user_cooldown,
                       global_cooldown |-> global_cooldown, count |-> 0])

SFXCommandDAL_get_command_by_name(table, name) ==
    IF name \in DOMAIN table THEN Some(table[name]) ELSE None

SFXCommandDAL_delete_command(table, name) ==
    [n \in DOMAIN table \ {name} |-> table[n]]

SFXCommandDAL_increment_counter(table, name) ==
    [table EXCEPT ![name].count = @ + 1]

(***************************************************************************)
(* The words of the chat commands                                          *)
(***************************************************************************)

T_add == <<"a", "d", "d">>
T_edit == <<"e", "d", "i", "t">>
T_delete == <<"d", "e", "l", "e", "t", "e">>
T_stat == <<"s", "t", "a", "t">>
T_remove == <<"r", "e", "m", "o", "v", "e">>
T_points_show == <<"p", "o", "i", "n", "t", "s", "_", "s", "h", "o", "w">>
T_sfx == <<"s", "f", "x">>
T_sfx_add == <<"s", "f", "x", "_", "a", "d", "d">>
T_sfx_remove == <<"s", "f", "x", "_", "r", "e", "m", "o", "v", "e">>
T_raffle == <<"r", "a", "f", "f", "l", "e">>
T_raffle_start == <<"r", "a", "f", "f", "l", "e", "_", "s", "t", "a", "r", "t">>
T_raffle_stop == <<"r", "a", "f", "f", "l", "e", "_", "s", "t", "o", "p">>
T_raffle_pick == <<"r", "a", "f", "f", "l", "e", "_", "p", "i", "c", "k">>
T_start == <<"s", "t", "a", "r", "t">>
T_startsub == <<"s", "t", "a", "r", "t", "s", "u", "b">>
T_stop == <<"s", "t", "o", "p">>
T_pick == <<"p", "i", "c", "k">>
T_slots == <<"s", "l", "o", "t", "s">>

\* config points_name, bets_command and bets_all_in_word
points_name == <<"g", "a", "t", "o", "s">>
bets_command == <<"a", "p", "o", "s", "t", "a", "r">>
bets_all_in_word == <<"t", "u", "d", "o">>

\* f"{self.prefix}{content[0]}": the prefix glued to the rest of the line.
with_prefix(rest) == <<prefix \o rest[1]>> \o Tail(rest)

\* (_, *content) = ctx.message.content.split(maxsplit=1): content[0] is the
\* rest of the line, here its tokens; no rest is content[0]'s IndexError.
rest_of(ctx) == Tail(ctx.content)

(***************************************************************************)
(* bot.py: custom text commands                                            *)
(***************************************************************************)

\* " ".join(tokens): the text as the one string the chat line held.
RECURSIVE join(_)
join(tokens) ==
    IF tokens = <<>> THEN <<>>
    ELSE IF Len(tokens) = 1 THEN tokens[1]
    ELSE tokens[1] \o <<" ">> \o join(Tail(tokens))

\* str(n) for a counter, which is never negative.
RECURSIVE str(_)
str(n) ==
    IF n < 10 THEN <<CHOOSE c \in Digits : digit_value(c) = n>>
    ELSE str(n \div 10) \o str(n % 10)

\* re.sub(pattern, repl, s) for a pattern that matches one fixed text:
\* every occurrence, left to right.
RECURSIVE re_sub(_, _, _)
re_sub(pattern, repl, s) ==
    IF s = <<>> THEN <<>>
    ELSE IF starts_with(s, pattern)
    THEN repl \o re_sub(pattern, repl, SubSeq(s, Len(pattern) + 1, Len(s)))
    ELSE <<Head(s)>> \o re_sub(pattern, repl, Tail(s))

\* The variables of a reply text.
V_count == <<"$", "(", "c", "o", "u", "n", "t", ")">>
V_user == <<"$", "(", "u", "s", "e", "r", ")">>
V_touser == <<"$", "(", "t", "o", "u", "s", "e", "r", ")">>

\* The three substitutions user_command makes in the stored text, in order.
render(text, count, user, to_user) ==
    re_sub(V_touser, to_user, re_sub(V_user, user, re_sub(V_count, str(count), join(text))))

\* (_, *arguments) = content.split(maxsplit=1): arguments[0] is all of the
\* line after its first word.
user_command(w0, ctx) ==
    LET w == enter(w0, "user_command")
        content == ctx.content
        user == ctx.author.name
        command == isolate_command(prefix, content)
        to_user == IF rest_of(ctx) # <<>> THEN join(rest_of(ctx)) ELSE user
    IN  IF ~truthy(command) THEN w
        ELSE LET usercommand == UserCommandDAL_get_command_by_name(w.db.user_commands, command[1])
             IN  IF usercommand = None THEN w
                 ELSE LET w1 == [w EXCEPT !.db.user_commands =
                                     UserCommandDAL_increment_counter(@, command[1])]
                      IN  send(w1, [Reply("user_command", command[1], user,
                                          w1.db.user_commands[command[1]].count, 0)
                                       EXCEPT !.text = render(usercommand[1].text,
                                                              w1.db.user_commands[command[1]].count,
                                                              user, to_user)])

\* add that stores the command whether or not the name is taken.
add_overwrites(w0, ctx) ==
    LET w == enter(w0, "add")
        content == rest_of(ctx)
    IN  IF ~(ctx.author.is_subscriber \/ ctx.author.is_mod) THEN w
        ELSE IF content = <<>> \/ Len(content) < 2
        THEN send(w, Reply("usage_add", <<>>, <<>>, 0, 0))
        ELSE LET command == isolate_command(prefix, with_prefix(content))[1]
                 text == Tail(content)
             IN  send([w EXCEPT !.db.user_commands =
                          UserCommandDAL_create_command(
                              UserCommandDAL_delete_command(@, command),
                              command, ctx.author.name, text)],
                      Reply("added", command, <<>>, 0, 0))

add(w0, ctx) ==
    LET w == enter(w0, "add")
        content == rest_of(ctx)
    IN  IF ~(ctx.author.is_subscriber \/ ctx.author.is_mod) THEN w
        ELSE IF content = <<>> \/ Len(content) < 2
        THEN send(w, Reply("usage_add", <<>>, <<>>, 0, 0))
        ELSE LET command == isolate_command(prefix, with_prefix(content))[1]
                 text == Tail(content)
             IN  IF UserCommandDAL_get_command_by_name(w.db.user_commands, command) = None
                 THEN send([w EXCEPT !.db.user_commands =
                                UserCommandDAL_create_command(@, command, ctx.author.name, text)],
                           Reply("added", command, <<>>, 0, 0))
                 ELSE send(w, Reply("already_exists", command, <<>>, 0, 0))

edit(w0, ctx) ==
    LET w == enter(w0, "edit")
        content == rest_of(ctx)
        user == ctx.author.name
    IN  IF content = <<>> \/ Len(content) < 2
        THEN send(w, Reply("usage_edit", <<>>, <<>>, 0, 0))
        ELSE LET command == isolate_command(prefix, with_prefix(content))[1]
                 text == Tail(content)
                 usercommand == UserCommandDAL_get_command_by_name(w.db.user_commands, command)
             IN  IF usercommand # None
                 THEN IF usercommand[1].creator = user \/ ctx.author.is_mod
                      THEN send([w EXCEPT !.db.user_commands =
                                     UserCommandDAL_update_command(@, command, text)],
                                Reply("edited", command, <<>>, 0, 0))
                      ELSE send(w, Reply("edit_refused", <<>>, <<>>, 0, 0))
                 ELSE send(w, Reply("does_not_exist", command, <<>>, 0, 0))

delete(w0, ctx) ==
    LET w == enter(w0, "delete")
        content == rest_of(ctx)
    IN  IF ~ctx.author.is_mod THEN w
        ELSE IF content = <<>>
        THEN send(w, Reply("usage_delete", <<>>, <<>>, 0, 0))
        ELSE LET command == isolate_command(prefix, with_prefix(content))[1]
             IN  IF UserCommandDAL_get_command_by_name(w.db.user_commands, command) # None
                 THEN send([w EXCEPT !.db.user_commands =
                                UserCommandDAL_delete_command(@, command)],
                           Reply("removed", command, <<>>, 0, 0))
                 ELSE send(w, Reply("does_not_exist", command, <<>>, 0, 0))

stat(w0, ctx) ==
    LET w == enter(w0, "stat")
        content == rest_of(ctx)
    IN  IF content = <<>>
        THEN send(w, Reply("usage_stat", <<>>, <<>>, 0, 0))
        ELSE LET command == isolate_command(prefix, with_prefix(content))[1]
                 usercommand == UserCommandDAL_get_command_by_name(w.db.user_commands, command)
             IN  IF usercommand # None
                 THEN send(w, Reply("stat", command, usercommand[1].creator,
                                    usercommand[1].count, 0))
                 ELSE send(w, Reply("does_not_exist", command, <<>>, 0, 0))

(***************************************************************************)
(* bot.py: points system                                                   *)
(***************************************************************************)

points_show(w0, ctx) ==
    LET w == enter(w0, "points_show")
        user == ctx.author.name
    IN  IF ~has(w, "points_ranks") THEN raise(w, "AttributeError")
        ELSE send(w, Reply("points_show", <<>>, user,
                           UserPointsDAL_get_points(w.db.user_points, user),
                           UserPointsDAL_get_hours(w.db.user_points, user)))

points_add(w, user, quantity) ==
    [w EXCEPT !.db.user_points = UserPointsDAL_increment_points(@, user, quantity)]

points_remove(w, user, quantity) ==
    [w EXCEPT !.db.user_points = UserPointsDAL_decrement_points(@, user, quantity)]

points_query(w, user) == UserPointsDAL_get_points(w.db.user_points, user)

\* points_command with the streamer's branch open to every caller.
points_command_for_all(w0, ctx) ==
    LET w == enter(w0, "points_command")
        content == Tail(ctx.content)
    IN  IF content = <<>> THEN points_show(w, ctx)
        ELSE LET command == isolate_command(prefix, with_prefix(content))[1]
             IN  IF command \in {T_add, T_remove}
                 THEN IF Len(content) < 3
                      THEN send(w, Reply(IF command = T_add THEN "usage_points_add"
                                         ELSE "usage_points_remove", <<>>, <<>>, 0, 0))
                      ELSE IF ~int_ok(content[3]) THEN raise(w, "ValueError")
                      ELSE LET user == content[2]
                               quantity == int(content[3])
                           IN  IF command = T_add
                               THEN send(points_add(w, user, quantity),
                                         Reply("points_added", <<>>, user, quantity, 0))
                               ELSE send(points_remove(w, user, quantity),
                                         Reply("points_removed", <<>>, user, quantity, 0))
                 ELSE points_show(w, ctx)

\* ctx.message.content.split(): every token after the first.
points_command(w0, ctx) ==
    LET w == enter(w0, "points_command")
        content == Tail(ctx.content)
    IN  IF content = <<>> THEN points_show(w, ctx)
        ELSE LET command == isolate_command(prefix, with_prefix(content))[1]
             IN  IF ctx.author.is_broadcaster /\ command \in {T_add, T_remove}
                 THEN IF Len(content) < 3
                      THEN send(w, Reply(IF command = T_add THEN "usage_points_add"
                                         ELSE "usage_points_remove", <<>>, <<>>, 0, 0))
                      ELSE IF ~int_ok(content[3]) THEN raise(w, "ValueError")
                      ELSE LET user == content[2]
                               quantity == int(content[3])
                           IN  IF command = T_add
                               THEN send(points_add(w, user, quantity),
                                         Reply("points_added", <<>>, user, quantity, 0))
                               ELSE send(points_remove(w, user, quantity),
                                         Reply("points_removed", <<>>, user, quantity, 0))
                 ELSE points_show(w, ctx)

\* add_points_system's user list: list_channel_users returns from inside its
\* loop, with the chatters of the first connected channel.
list_channel_users(connected_channels) == Head(connected_channels)

RECURSIVE credit_all(_, _, _, _)
credit_all(table, users, points, minutes) ==
    IF users = {} THEN table
    ELSE LET user == CHOOSE u \in users : TRUE
         IN  credit_all(UserPointsDAL_increment_minutes(
                            UserPointsDAL_increment_points(table, user, points),
                            user, minutes),
                        users \ {user}, points, minutes)

\* config points_timer_interval (minutes) and points_timer_quantity
points_timer_interval == 10
points_timer_quantity == 1

add_points_system(w, is_live, connected_channels, points) ==
    IF ~is_live THEN w
    ELSE [w EXCEPT !.db.user_points =
              credit_all(@, list_channel_users(connected_channels),
                         points, points_timer_interval)]

(***************************************************************************)
(* bot.py: sfx system                                                      *)
(***************************************************************************)

\* dict.get with a default, for the cooldown tables' KeyError fallbacks.
lookup(table, key, default) == IF key \in DOMAIN table THEN table[key] ELSE default

\* The timestamp a cooldown lookup falls back to on KeyError.
NeverUsed == 1

sfx_add(w0, ctx) ==
    LET w == enter(w0, "sfx_add")
        content == rest_of(ctx)
    IN  IF ~w0.self.sfx_enabled THEN w
        ELSE IF ~ctx.author.is_broadcaster THEN w
        ELSE IF content = <<>> \/ Len(content) < 3
        THEN send(w, Reply("usage_sfx_add", <<>>, <<>>, 0, 0))
        ELSE LET command == Tail(content)
                 sfx_command == command[1]
                 audio_file == command[2]
                 bad(i) == Len(command) >= i /\ ~int_ok(command[i])
                 arg(i) == IF Len(command) >= i THEN int(command[i]) ELSE SfxDefault
             IN  IF bad(3) \/ bad(4) \/ bad(5) THEN raise(w, "ValueError")
                 ELSE IF SFXCommandDAL_get_command_by_name(w.db.sfx_commands, sfx_command) = None
                 THEN send([w EXCEPT !.db.sfx_commands =
                                SFXCommandDAL_create_command(@, sfx_command, audio_file,
                                                             arg(3), arg(4), arg(5))],
                           Reply("sfx_added", sfx_command, <<>>, 0, 0))
                 ELSE send(w, Reply("sfx_already_exists", sfx_command, <<>>, 0, 0))

sfx_remove(w0, ctx) ==
    LET w == enter(w0, "sfx_remove")
        content == rest_of(ctx)
    IN  IF ~w0.self.sfx_enabled THEN w
        ELSE IF ~ctx.author.is_broadcaster THEN w
        ELSE IF content = <<>> \/ Len(content) < 2
        THEN send(w, Reply("usage_sfx_remove", <<>>, <<>>, 0, 0))
        ELSE LET sfx_command == content[2]
             IN  IF SFXCommandDAL_get_command_by_name(w.db.sfx_commands, sfx_command) # None
                 THEN send([w EXCEPT !.db.sfx_commands =
                                SFXCommandDAL_delete_command(@, sfx_command)],
                           Reply("sfx_removed", sfx_command, <<>>, 0, 0))
                 ELSE send(w, Reply("sfx_does_not_exist", sfx_command, <<>>, 0, 0))

sfx(w0, ctx) ==
    LET w == enter(w0, "sfx")
        content == rest_of(ctx)
    IN  IF ~w0.self.sfx_enabled THEN w
        ELSE IF content = <<>>
        THEN send(w, Reply("usage_sfx", <<>>, <<>>, 0, 0))
        ELSE LET command == isolate_command(prefix, with_prefix(content))[1]
             IN  IF command = T_add THEN sfx_add(w, ctx)
                 ELSE IF command = T_remove THEN sfx_remove(w, ctx)
                 ELSE w

\* OBSWebSocket.play_sound, as the call sfx_command makes.  On a socket
\* that never connected, the first remote call raises.
play_sound(w, sound) ==
    IF w.self.obs_websocket = "connected"
    THEN [w EXCEPT !.trace.played = Append(@, sound),
                   !.trace.play_saw = Some([self |-> w.self, db |-> w.db])]
    ELSE raise(w, "ConnectionFailure")

\* The end of sfx_command's `async with session.begin()`: what the session
\* wrote, the counter, is committed, or rolled back when the block raised.
\* The balance was written by points_remove's own session and stays.
session_end(before, w) ==
    IF w.trace.raised = "" THEN w
    ELSE [w EXCEPT !.db.sfx_commands = before.db.sfx_commands]

\* self.<table>[key] = time_now
stamp(table, key, time_now) ==
    [k \in DOMAIN table \cup {key} |-> IF k = key THEN time_now ELSE table[k]]

\* A trigger that plays the sound first and books it afterwards.
sfx_play_first(w, user, name, sfxcommand, time_now) ==
    LET played == play_sound(w, sfxcommand.audio_file)
    IN  [played EXCEPT !.db.sfx_commands = SFXCommandDAL_increment_counter(@, name),
                       !.self.sfx_global_cooldown = stamp(@, name, time_now),
                       !.self.sfx_user_cooldown = stamp(@, <<user, name>>, time_now)]

\* sfx_command once the cooldown and balance checks passed.
sfx_play(w, user, name, sfxcommand, time_now) ==
    play_sound([w EXCEPT !.db.sfx_commands = SFXCommandDAL_increment_counter(@, name),
                         !.self.sfx_global_cooldown = stamp(@, name, time_now),
                         !.self.sfx_user_cooldown = stamp(@, <<user, name>>, time_now)],
               sfxcommand.audio_file)

\* A trigger that forgets the user's own cooldown.
sfx_checked_no_user_cooldown(w, user, name, sfxcommand, time_now) ==
    LET global_cooldown == lookup(w.self.sfx_global_cooldown, name, NeverUsed)
    IN  IF (time_now - global_cooldown) < sfxcommand.global_cooldown THEN w
        ELSE IF ~w.self.points_enabled
        THEN sfx_play(w, user, name, sfxcommand, time_now)
        ELSE IF points_query(w, user) < sfxcommand.cost THEN w
        ELSE sfx_play(points_remove(w, user, sfxcommand.cost),
                      user, name, sfxcommand, time_now)

\* sfx_command for a stored sound command: the cooldowns, then the cost.
sfx_checked(w, user, name, sfxcommand, time_now) ==
    LET global_cooldown == lookup(w.self.sfx_global_cooldown, name, NeverUsed)
        user_cooldown == lookup(w.self.sfx_user_cooldown, <<user, name>>, NeverUsed)
    IN  IF (time_now - global_cooldown) < sfxcommand.global_cooldown THEN w
        ELSE IF (time_now - user_cooldown) < sfxcommand.user_cooldown THEN w
        ELSE IF ~w.self.points_enabled
        THEN sfx_play(w, user, name, sfxcommand, time_now)
        ELSE IF points_query(w, user) < sfxcommand.cost THEN w
        ELSE sfx_play(points_remove(w, user, sfxcommand.cost),
                      user, name, sfxcommand, time_now)

sfx_command(w0, ctx, time_now) ==
    LET w == enter(w0, "sfx_command")
        command == isolate_command(prefix, ctx.content)
    IN  IF ~w0.self.sfx_enabled THEN w
        ELSE IF ~truthy(command) THEN w
        ELSE IF SFXCommandDAL_get_command_by_name(w.db.sfx_commands, command[1]) = None
        THEN w
        ELSE session_end(w, sfx_checked(w, ctx.author.name, command[1],
                                        w.db.sfx_commands[command[1]], time_now))

\* sfx_command suspended in play_sound, waiting for the remote to report
\* the sound as ended: the balance was written and committed by
\* points_remove's own session, the counter UPDATE was issued in the
\* handler's session, whose `async with session.begin()` is still open, so
\* the stored counter is the one before.
suspended_in_play_sound(before, w) ==
    [w EXCEPT !.db.sfx_commands = before.db.sfx_commands]

\* A handler that runs while another session's write is not yet committed:
\* the database file is SQLite (db/connection.py), where one connection
\* writes at a time, so the handler's first write ends in "database is
\* locked" and the handler ends there, before the replies it sends after
\* writing; what it read, and what it stored in the bot's attributes before
\* writing, stands.
database_is_locked(before, w) ==
    IF w.db = before.db THEN w
    ELSE [w EXCEPT !.db = before.db,
                   !.sent = <<>>,
                   !.trace.raised = "OperationalError"]

(***************************************************************************)
(* bot.py: sfx_command, one step per await                                 *)
(***************************************************************************)

\* One sfx_command invocation: op is the await it is suspended at (or how
\* it ended), time_now its local of that name (0 until it is read), played
\* the clock when it called play_sound (an optional), id the order of
\* arrival.
SfxTask(cmd, op, user, played, id, time_now) ==
    [cmd |-> cmd, op |-> op, user |-> user, played |-> played,
     id |-> id, time_now |-> time_now]

\* The handler's session issued its UPDATE and has not committed: it holds
\* the one write transaction of the database file.
holds_write(t) == t.op = "play_sound"

\* The invocation is at an await that writes.
awaits_write(t) == t.op \in {"points_remove", "increment_counter"}

\* sfx_command for a line that names a command, resumed from the await t.op
\* with the clock at `clock`: the world it leaves and the invocation at its
\* next await.  time_now is read once, when the lookup returned; the
\* cooldown tables are refreshed with it after the balance and the counter
\* were awaited; the counter's UPDATE is committed when play_sound returned.
sfx_command_next(w, t, clock) ==
    LET sfxcommand == w.db.sfx_commands[t.cmd]
        global_cooldown == lookup(w.self.sfx_global_cooldown, t.cmd, NeverUsed)
        user_cooldown == lookup(w.self.sfx_user_cooldown, <<t.user, t.cmd>>, NeverUsed)
        to(op) == [t EXCEPT !.op = op]
    IN  CASE t.op = "get_command_by_name" ->
                 IF SFXCommandDAL_get_command_by_name(w.db.sfx_commands, t.cmd) = None
                 THEN <<w, to("returned")>>
                 ELSE IF (clock - global_cooldown) < sfxcommand.global_cooldown
                 THEN <<w, to("returned")>>
                 ELSE IF (clock - user_cooldown) < sfxcommand.user_cooldown
                 THEN <<w, to("returned")>>
                 ELSE <<w, [t EXCEPT !.time_now = clock,
                                     !.op = IF w.self.points_enabled THEN "points_query"
                                            ELSE "increment_counter"]>>
          [] t.op = "points_query" ->
                 IF points_query(w, t.user) < sfxcommand.cost
                 THEN <<w, to("returned")>>
                 ELSE <<w, to("points_remove")>>
          [] t.op = "points_remove" ->
                 <<points_remove(w, t.user, sfxcommand.cost), to("increment_counter")>>
          [] t.op = "increment_counter" ->
                 <<[w EXCEPT !.self.sfx_global_cooldown = stamp(@, t.cmd, t.time_now),
                             !.self.sfx_user_cooldown = stamp(@, <<t.user, t.cmd>>, t.time_now),
                             !.trace.played = Append(@, sfxcommand.audio_file)],
                   [t EXCEPT !.op = "play_sound", !.played = Some(clock)]>>
          [] OTHER ->
                 <<[w EXCEPT !.db.sfx_commands = SFXCommandDAL_increment_counter(@, t.cmd)],
                   to("returned")>>

(***************************************************************************)
(* obs_websocket.py: play_sound, one step per await                        *)
(***************************************************************************)

\* f"sound-{sound}": the name of the media source play_sound creates.
source_name(sound) == <<"s", "o", "u", "n", "d", "-">> \o sound

\* A source of the remote's scene: the play_sound call that created it (an
\* optional, None for a source that was in the scene before) and its media
\* state.
Source(creator, mediaState) == [creator |-> creator, mediaState |-> mediaState]

\* A play_sound call suspended at an await: op is the remote request (or
\* the sleep) it awaits, user is the viewer whose trigger made the call.
PlaySound(op, user, sound) == [op |-> op, user |-> user, audio_file |-> sound]

\* What the remote does with a request.  Source names are unique in the
\* scene: CreateSource under a name that exists creates nothing and answers
\* with an error status, which play_sound does not look at.  The source is
\* created invisible and plays once SetSceneItemProperties shows it.
remote(sc, request, source, user) ==
    CASE request = "CreateSource" ->
             IF source \in DOMAIN sc THEN sc
             ELSE sc @@ (source :> Source(Some(user), "stopped"))
      [] request = "SetSceneItemProperties" ->
             IF source \in DOMAIN sc /\ sc[source].mediaState = "stopped"
             THEN [sc EXCEPT ![source].mediaState = "playing"]
             ELSE sc
      [] request = "DeleteSceneItem" -> [s \in DOMAIN sc \ {source} |-> sc[s]]
      [] OTHER -> sc

\* A play_sound that shows the source and deletes it without polling.
play_sound_no_poll(op, sc, source) ==
    CASE op = "GetCurrentScene" ->
             IF source \in DOMAIN sc THEN "sleep_active" ELSE "CreateSource"
      [] op = "sleep_active" -> "GetCurrentScene"
      [] op = "CreateSource" -> "SetVolume"
      [] op = "SetVolume" -> "SetAudioMonitorType"
      [] op = "SetAudioMonitorType" -> "SetSceneItemProperties"
      [] op = "SetSceneItemProperties" -> "DeleteSceneItem"
      [] OTHER -> "returned"

\* Where play_sound goes when the await of op returns, the remote having
\* answered from the scene sc: the next await, "returned", or the KeyError
\* of result['mediaState'] on the answer for a source that is not there.
play_sound_next(op, sc, source) ==
    CASE op = "GetCurrentScene" ->
             IF source \in DOMAIN sc THEN "sleep_active" ELSE "CreateSource"
      [] op = "sleep_active" -> "GetCurrentScene"
      [] op = "CreateSource" -> "SetVolume"
      [] op = "SetVolume" -> "SetAudioMonitorType"
      [] op = "SetAudioMonitorType" -> "SetSceneItemProperties"
      [] op = "SetSceneItemProperties" -> "GetMediaState"
      [] op = "GetMediaState" ->
             IF source \notin DOMAIN sc THEN "KeyError"
             ELSE IF sc[source].mediaState # "ended" THEN "sleep_playing"
             ELSE "DeleteSceneItem"
      [] op = "sleep_playing" -> "GetMediaState"
      [] OTHER -> "returned"

(***************************************************************************)
(* Python's random and list helpers                                        *)
(***************************************************************************)

\* random.randint(a, b): a value of [a, b], picked by the entropy r.
randint(a, b, r) == a + (r % (b - a + 1))

\* list.remove(x): the list without its first x.
RECURSIVE remove(_, _)
remove(list, x) ==
    IF list = <<>> THEN <<>>
    ELSE IF Head(list) = x THEN Tail(list)
    ELSE <<Head(list)>> \o remove(Tail(list), x)

\* x in list
contains(list, x) == \E i \in 1..Len(list) : list[i] = x

\* list.count(x)
count(list, x) == Cardinality({i \in 1..Len(list) : list[i] = x})

(***************************************************************************)
(* bot.py: raffle system                                                   *)
(***************************************************************************)

\* A raffle start that keeps the entries of the raffle before.
raffle_start_keeps_entries(w0, ctx) ==
    LET w == enter(w0, "raffle_start")
        content == rest_of(ctx)
    IN  IF ~ctx.author.is_broadcaster THEN w
        ELSE IF content = <<>> \/ Len(content) < 2
        THEN send([w EXCEPT !.self.raffle_enabled = TRUE],
                  Reply("usage_raffle_start", <<>>, <<>>, 0, 0))
        ELSE send([w EXCEPT !.self.raffle_enabled = TRUE,
                            !.self.raffle_wordkey = content[2]],
                  Reply("raffle_started", content[2], <<>>, 0, 0))

raffle_start(w0, ctx) ==
    LET w == enter(w0, "raffle_start")
        content == rest_of(ctx)
    IN  IF ~ctx.author.is_broadcaster THEN w
        ELSE LET w1 == assigned([w EXCEPT !.self.raffle_enabled = TRUE,
                                          !.self.raffle_participants = <<>>,
                                          !.self.raffle_picked = <<>>],
                                {"raffle_enabled", "raffle_participants", "raffle_picked"})
                 message_started == IF w1.self.raffle_is_subscriber_only
                                    THEN "sub_raffle_started" ELSE "raffle_started"
             IN  IF ~has(w1, "raffle_is_subscriber_only") THEN raise(w1, "AttributeError")
                 ELSE IF content = <<>> \/ Len(content) < 2
                 THEN send(w1, Reply("usage_raffle_start", <<>>, <<>>, 0, 0))
                 ELSE send(assigned([w1 EXCEPT !.self.raffle_wordkey = content[2]],
                                    {"raffle_wordkey"}),
                           Reply(message_started, content[2], <<>>, 0, 0))

raffle_stop(w0, ctx) ==
    LET w == enter(w0, "raffle_stop")
    IN  IF ~ctx.author.is_broadcaster THEN w
        ELSE send(assigned([w EXCEPT !.self.raffle_enabled = FALSE], {"raffle_enabled"}),
                  Reply("raffle_stopped", <<>>, <<>>, 0, 0))

\* A pick that leaves the winner in the pool.
raffle_pick_keeps_winner(w0, ctx, r) ==
    LET w == enter(w0, "raffle_pick")
        number_participants == Len(w.self.raffle_participants)
    IN  IF ~ctx.author.is_broadcaster THEN w
        ELSE IF number_participants > 0
        THEN LET user_pick == w.self.raffle_participants[randint(0, number_participants - 1, r) + 1]
             IN  send([w EXCEPT !.self.raffle_picked = Append(@, user_pick),
                                !.self.raffle_lastpick = user_pick],
                      Reply("raffle_picked", <<>>, user_pick, 0, 0))
        ELSE send(w, Reply("raffle_empty", <<>>, <<>>, 0, 0))

raffle_pick(w0, ctx, r) ==
    LET w == enter(w0, "raffle_pick")
        number_participants == Len(w.self.raffle_participants)
    IN  IF ~ctx.author.is_broadcaster THEN w
        ELSE IF ~has(w, "raffle_participants") THEN raise(w, "AttributeError")
        ELSE IF number_participants > 0
        THEN LET random_pick_number == randint(0, number_participants - 1, r)
                 user_pick == w.self.raffle_participants[random_pick_number + 1]
             IN  send(assigned([w EXCEPT !.self.raffle_participants = remove(@, user_pick),
                                         !.self.raffle_picked = Append(@, user_pick),
                                         !.self.raffle_lastpick = user_pick],
                               {"raffle_lastpick"}),
                      Reply("raffle_picked", <<>>, user_pick, 0, 0))
        ELSE send(w, Reply("raffle_empty", <<>>, <<>>, 0, 0))

raffle(w0, ctx, r) ==
    LET w == enter(w0, "raffle")
        content == rest_of(ctx)
    IN  IF content = <<>>
        THEN send(w, Reply("usage_sfx", <<>>, <<>>, 0, 0))
        ELSE LET command == isolate_command(prefix, with_prefix(content))[1]
             IN  IF command = T_start THEN raffle_start(w, ctx)
                 ELSE IF command = T_startsub
                 THEN raffle_start(assigned([w EXCEPT !.self.raffle_is_subscriber_only = TRUE],
                                            {"raffle_is_subscriber_only"}), ctx)
                 ELSE IF command = T_stop THEN raffle_stop(w, ctx)
                 ELSE IF command = T_pick THEN raffle_pick(w, ctx, r)
                 ELSE w

\* An entry that does not look whether the user is in the pool already.
raffle_add_participant_again(w, user) ==
    [w EXCEPT !.self.raffle_participants = Append(@, user)]

raffle_add_participant(w, user) ==
    IF ~contains(w.self.raffle_participants, user)
    THEN [w EXCEPT !.self.raffle_participants = Append(@, user)]
    ELSE w

(***************************************************************************)
(* bot.py: bets system                                                     *)
(***************************************************************************)

\* config bets_minimum_bet and bets_user_cooldown (seconds)
bets_minimum_bet == 2
bets_user_cooldown == 2

\* The placeholder odds bets falls back to.
DefaultDouble == 45
DefaultTriple == 5
DefaultLose == 50
Hundred == 100

\* A draw that leaves the draw 100 - triple_chance to neither winning band.
bets_outcome_gap(number_bet, lose_chance, triple_chance) ==
    IF number_bet <= lose_chance THEN "loss"
    ELSE IF (number_bet > lose_chance) /\ (number_bet < (Hundred - triple_chance)) THEN "double"
    ELSE IF number_bet > (Hundred - triple_chance) THEN "triple"
    ELSE ""

\* Which branch of bets' if / elif / else the draw takes.
bets_outcome(number_bet, lose_chance, triple_chance) ==
    IF number_bet <= lose_chance THEN "loss"
    ELSE IF (number_bet > lose_chance) /\ (number_bet < (Hundred - triple_chance)) THEN "double"
    ELSE "triple"

\* The odds test: odds that do not sum to 100 are replaced by the placeholder.
bets_odds(w) ==
    IF w.self.bets_double_chance + w.self.bets_triple_chance
           + w.self.bets_lose_chance = Hundred
    THEN w
    ELSE [w EXCEPT !.self.bets_double_chance = DefaultDouble,
                   !.self.bets_triple_chance = DefaultTriple,
                   !.self.bets_lose_chance = DefaultLose]

\* bets from the draw on: the stake is debited and the odds are checked.
bets_draw(w, user, user_points, number_points, r) ==
    LET number_bet == randint(1, Hundred, r)
        outcome == bets_outcome(number_bet, w.self.bets_lose_chance,
                                w.self.bets_triple_chance)
        w1 == [w EXCEPT !.trace.user_points = user_points,
                        !.trace.number_points = number_points,
                        !.trace.number_bet = number_bet,
                        !.trace.outcome = outcome]
        win_points == IF outcome = "double" THEN number_points * 2
                      ELSE number_points * 3
    IN  IF outcome = "loss"
        THEN send([w1 EXCEPT !.trace.total_points = user_points - number_points],
                  Reply("bet_lost", <<>>, user, number_points, user_points - number_points))
        ELSE IF outcome \in {"double", "triple"}
        THEN send([points_add(w1, user, win_points)
                       EXCEPT !.trace.total_points = user_points + win_points],
                  Reply("bet_won", <<>>, user, win_points, user_points + win_points))
        ELSE raise(w1, "UnboundLocalError")

\* A wager that does not compare the stake with the balance.
bets_wager_unchecked(w, ctx, r) ==
    LET user == ctx.author.name
        content == rest_of(ctx)
        user_points == points_query(w, user)
        number_points == IF content = <<>> THEN bets_minimum_bet
                         ELSE IF content = <<bets_all_in_word>> THEN user_points
                         ELSE int(content[1])
    IN  IF number_points < bets_minimum_bet
        THEN send(w, Reply("bet_below_minimum", <<>>, user, 0, 0))
        ELSE bets_draw(bets_odds(points_remove(w, user, number_points)),
                       user, user_points, number_points, r)

\* bets after the cooldown timestamp was refreshed: the stake, its checks
\* and the debit.
bets_wager(w, ctx, r) ==
    LET user == ctx.author.name
        content == rest_of(ctx)
        user_points == points_query(w, user)
        all_in == content = <<bets_all_in_word>>
        is_int == Len(content) = 1 /\ int_ok(content[1])
        number_points == IF content = <<>> THEN bets_minimum_bet
                         ELSE IF all_in THEN user_points
                         ELSE int(content[1])
    IN  IF content # <<>> /\ ~all_in /\ ~is_int THEN raise(w, "ValueError")
        ELSE IF number_points < bets_minimum_bet
        THEN send(w, Reply("bet_below_minimum", <<>>, user, 0, 0))
        ELSE IF number_points > user_points
        THEN send(w, Reply("bet_above_balance", <<>>, user, 0, 0))
        ELSE bets_draw(bets_odds(points_remove(w, user, number_points)),
                       user, user_points, number_points, r)

\* A bets handler that never stores the time of the invocation.
bets_no_refresh(w0, ctx, time_now, r) ==
    LET w == enter(w0, "bets")
        user_cooldown == lookup(w.self.bets_cooldowns, ctx.author.name, NeverUsed)
    IN  IF (time_now - user_cooldown) < bets_user_cooldown THEN w
        ELSE bets_wager(w, ctx, r)

bets(w0, ctx, time_now, r) ==
    LET w == enter(w0, "bets")
        user == ctx.author.name
        user_cooldown == lookup(w.self.bets_cooldowns, user, NeverUsed)
    IN  IF (time_now - user_cooldown) < bets_user_cooldown THEN w
        ELSE bets_wager([w EXCEPT !.self.bets_cooldowns = stamp(@, user, time_now)],
                        ctx, r)

(***************************************************************************)
(* bot.py: slots system                                                    *)
(***************************************************************************)

\* config slots_bet, slots_user_cooldown, slots_emotes and slots_super_emote
slots_bet == 2
slots_user_cooldown == 1
slots_emotes == <<"KEKW", "LUL">>
slots_super_emote == "CoolStoryBob"

\* Python's == between an int and a str: never equal.
py_eq_int_str(i, s) == FALSE

\* `emote == self.slots_super_emote`, emote being a reel position (an int).
jackpot_test(emote, emotes) == py_eq_int_str(emote, slots_super_emote)

\* The for loop over the three reel positions: the payout of the first
\* position whose value occurs three times or twice, else False (0).
RECURSIVE slots_payout(_, _, _)
slots_payout(i, slots, emotes) ==
    IF i > Len(slots) THEN 0
    ELSE LET emote == slots[i]
             emote_count == count(slots, emote)
         IN  IF emote_count = 3
             THEN IF jackpot_test(emote, emotes) THEN slots_bet * 5 ELSE slots_bet * 3
             ELSE IF emote_count = 2 THEN slots_bet * 2
             ELSE slots_payout(i + 1, slots, emotes)

\* slots from the draw on: the stake is debited.
slots_spin(w, user, r1, r2, r3) ==
    LET emotes == Append(slots_emotes, slots_super_emote)
        quantity_of_emotes == Len(emotes)
        slot_1 == randint(1, quantity_of_emotes, r1) - 1
        slot_2 == randint(1, quantity_of_emotes, r2) - 1
        slot_3 == randint(1, quantity_of_emotes, r3) - 1
        slots_drawn == <<slot_1, slot_2, slot_3>>
        points_win == slots_payout(1, slots_drawn, emotes)
        w1 == [w EXCEPT !.trace.slots = slots_drawn,
                        !.trace.points_win = points_win]
    IN  IF points_win = 0
        THEN send(w1, Reply("slots_lost", <<>>, user, slots_bet, 0))
        ELSE send(points_add(w1, user, points_win),
                  Reply("slots_won", <<>>, user, points_win, 0))

\* A spin that is not paid for.
slots_wager_no_debit(w, user, r1, r2, r3) ==
    IF slots_bet > points_query(w, user)
    THEN send(w, Reply("bet_above_balance", <<>>, user, 0, 0))
    ELSE slots_spin(w, user, r1, r2, r3)

\* slots after the cooldown timestamp was refreshed: the balance check and
\* the debit.
slots_wager(w, user, r1, r2, r3) ==
    IF slots_bet > points_query(w, user)
    THEN send(w, Reply("bet_above_balance", <<>>, user, 0, 0))
    ELSE slots_spin(points_remove(w, user, slots_bet), user, r1, r2, r3)

slots(w0, ctx, time_now, r1, r2, r3) ==
    LET w == enter(w0, "slots")
        user == ctx.author.name
        user_cooldown == lookup(w.self.slots_cooldowns, user, NeverUsed)
    IN  IF ~has(w, "slots_cooldowns") THEN raise(w, "AttributeError")
        ELSE IF (time_now - user_cooldown) < slots_user_cooldown THEN w
        ELSE slots_wager([w EXCEPT !.self.slots_cooldowns = stamp(@, user, time_now)],
                         user, r1, r2, r3)

(***************************************************************************)
(* bot.py: the jokes                                                       *)
(***************************************************************************)

T_piadaruim == <<"p", "i", "a", "d", "a", "r", "u", "i", "m">>

\* config jokes_cooldown, in seconds
jokes_cooldown == 1

\* lines[line_out], the lines being indexed from 0.
joke_at(lines, line_out) == lines[line_out + 1]

\* random.randint(0, quantity): both ends can be drawn.
joke_drawn(quantity, r) == randint(0, quantity, r)

\* piadaruim: after the cooldown, a line of the file is drawn and sent, and
\* then the time is kept.  Indexing past the last line raises IndexError,
\* and so does any index into an empty file.
piadaruim(w0, ctx, time_now, r) ==
    LET w == enter(w0, "piadaruim")
        lines == w.self.jokes_filename
        quantity == Len(lines)
        line_out == joke_drawn(quantity, r)
    IN  IF ~has(w, "jokes_lastused") THEN raise(w, "AttributeError")
        ELSE IF ~(time_now > w.self.jokes_lastused + jokes_cooldown) THEN w
        ELSE IF line_out >= quantity THEN raise(w, "IndexError")
        ELSE [send(w, Reply("joke", joke_at(lines, line_out), <<>>, line_out, 0))
                  EXCEPT !.self.jokes_lastused = time_now]

(***************************************************************************)
(* bot.py: the dispatcher                                                  *)
(***************************************************************************)

\* The entropy one event may consume: the randint of raffle_pick or of
\* piadaruim, bets' randint and the three randints of slots.
Rnd(pick, bet, s1, s2, s3) == [pick |-> pick, bet |-> bet, s1 |-> s1, s2 |-> s2, s3 |-> s3]

NoRnd == Rnd(0, 0, 0, 0, 0)

\* event_ready: the connection to the remote succeeds or fails; a failure
\* is logged (or raised out of the event) and no attribute of the bot is
\* changed for it.
event_ready(w, connected) ==
    [w EXCEPT !.self.obs_websocket = IF connected THEN "connected" ELSE "failed"]

\* CommandNotFound: the custom text command, then the sound command.
event_command_error(w, ctx, time_now) ==
    sfx_command(user_command(w, ctx), ctx, time_now)

\* twitchio's handle_commands: a line that starts with the prefix invokes the
\* command registered under its first word (the points and the bets command
\* are registered by the blocks of Bot.__init__ that set their attributes,
\* the others by their decorators), and raises CommandNotFound (to
\* event_command_error) when there is none; an exception inside a handler
\* goes to event_command_error too, which ignores it.
handle_commands(w, ctx, time_now, rnd) ==
    IF ctx.content = <<>> \/ ~starts_with(ctx.content[1], prefix) THEN w
    ELSE LET name == sub_prefix(ctx.content[1], prefix)
         IN  CASE name = T_add -> add(w, ctx)
               [] name = T_edit -> edit(w, ctx)
               [] name = T_delete -> delete(w, ctx)
               [] name = T_stat -> stat(w, ctx)
               [] name = T_points_show -> points_show(w, ctx)
               [] name = points_name /\ w.self.points_enabled -> points_command(w, ctx)
               [] name = T_sfx -> sfx(w, ctx)
               [] name = T_sfx_add -> sfx_add(w, ctx)
               [] name = T_sfx_remove -> sfx_remove(w, ctx)
               [] name = T_raffle -> raffle(w, ctx, rnd.pick)
               [] name = T_raffle_start -> raffle_start(w, ctx)
               [] name = T_raffle_stop -> raffle_stop(w, ctx)
               [] name = T_raffle_pick -> raffle_pick(w, ctx, rnd.pick)
               [] name = bets_command /\ has(w, "bets_command") ->
                      bets(w, ctx, time_now, rnd.bet)
               [] name = T_slots -> slots(w, ctx, time_now, rnd.s1, rnd.s2, rnd.s3)
               [] name = T_piadaruim -> piadaruim(w, ctx, time_now, rnd.pick)
               [] OTHER -> event_command_error(w, ctx, time_now)

\* event_message's raffle check, after the command handlers ran.
raffle_check(w, msg) ==
    IF ~has(w, "raffle_enabled") THEN raise(w, "AttributeError")
    ELSE IF w.self.raffle_enabled /\ ~has(w, "raffle_wordkey") THEN raise(w, "AttributeError")
    ELSE IF w.self.raffle_enabled /\ msg.content = <<w.self.raffle_wordkey>>
    THEN IF w.self.raffle_is_subscriber_only
         THEN IF msg.author.is_subscriber
              THEN raffle_add_participant(w, msg.author.name)
              ELSE w
         ELSE raffle_add_participant(w, msg.author.name)
    ELSE w

event_message(w, msg, time_now, rnd) ==
    IF msg.echo THEN w
    ELSE raffle_check(handle_commands(w, msg, time_now, rnd), msg)

(***************************************************************************)
(* The state after construction, and one step per event                    *)
(***************************************************************************)

\* The feature flags of the configuration file.
Config(points_enabled, sfx_enabled, bets_enabled, slots_enabled) ==
    [points_enabled |-> points_enabled,
     sfx_enabled |-> sfx_enabled,
     bets_enabled |-> bets_enabled,
     slots_enabled |-> slots_enabled]

\* config.py's defaults: every feature on.
AllEnabled == Config(TRUE, TRUE, TRUE, TRUE)

\* The file config.jokes_filename names, as readlines() returns it: one
\* joke per line.
J_1 == <<"k", "k">>
J_2 == <<"l", "o", "l">>
piadasruins == <<J_1, J_2>>

\* The names Bot.__init__ assigns on the instance, block by block: the
\* flags set before each `if`, then what each block sets.  The sound
\* remote is configured (obs_websocket['enabled']).
attributes_points == {"points_name", "points_ranks", "points_timer_interval",
                      "points_timer_quantity"}

attributes_obs_websocket == {"obs_websocket", "sound_path", "sound_volume",
                             "sound_scene_name"}

attributes_slots == {"slots_bet", "slots_user_cooldown", "slots_emotes",
                     "slots_super_emote", "slots_cooldowns"}

attributes_bets(config) ==
    {"bets_minimum_bet", "bets_command", "bets_all_in_word", "bets_double_chance",
     "bets_triple_chance", "bets_lose_chance", "bets_user_cooldown", "bets_cooldowns",
     "slots_enabled"}
        \cup (IF config.slots_enabled /\ config.points_enabled
              THEN attributes_slots ELSE {})

attributes_sfx(config) ==
    {"sfx_global_cooldown", "sfx_user_cooldown", "sfx_backend",
     "jokes_filename", "jokes_cooldown", "jokes_lastused",
     "raffle_enabled", "raffle_is_subscriber_only", "raffle_wordkey",
     "raffle_participants", "raffle_picked", "raffle_lastpick",
     "bets_enabled"}
        \cup (IF config.bets_enabled /\ config.points_enabled
              THEN attributes_bets(config) ELSE {})

attributes_of(config) ==
    {"points_enabled", "obs_websocket_enabled", "sfx_enabled"}
        \cup attributes_obs_websocket
        \cup (IF config.points_enabled THEN attributes_points ELSE {})
        \cup (IF config.sfx_enabled THEN attributes_sfx(config) ELSE {})

\* Bot.__init__ with the flags and the odds the configuration gives, after
\* event_ready connected to the remote.  attributes holds the names that
\* were assigned; a field whose name is not among them stands for an
\* attribute the instance does not have, and its value here is never read.
BotWith(config, double_chance, triple_chance, lose_chance) ==
    [obs_websocket |-> "connected",
     attributes |-> attributes_of(config),
     points_enabled |-> config.points_enabled,
     sfx_enabled |-> config.sfx_enabled,
     sfx_global_cooldown |-> <<>>,
     sfx_user_cooldown |-> <<>>,
     jokes_filename |-> piadasruins,
     jokes_lastused |-> 0,
     raffle_enabled |-> FALSE,
     raffle_is_subscriber_only |-> FALSE,
     raffle_wordkey |-> <<>>,
     raffle_participants |-> <<>>,
     raffle_picked |-> <<>>,
     raffle_lastpick |-> <<>>,
     bets_enabled |-> config.sfx_enabled /\ config.bets_enabled /\ config.points_enabled,
     bets_double_chance |-> double_chance,
     bets_triple_chance |-> triple_chance,
     bets_lose_chance |-> lose_chance,
     bets_cooldowns |-> <<>>,
     slots_enabled |-> /\ config.sfx_enabled /\ config.bets_enabled
                       /\ config.slots_enabled /\ config.points_enabled,
     slots_cooldowns |-> <<>>]

\* Bot.__init__ with config.py's flags.
Bot(double_chance, triple_chance, lose_chance) ==
    BotWith(AllEnabled, double_chance, triple_chance, lose_chance)

\* The remote's scene with no sound source in it.
NoSources == <<>>

\* db_startup on a fresh database file: the three tables, empty.
EmptyDb == [user_commands |-> <<>>, user_points |-> <<>>, sfx_commands |-> <<>>]

\* The clock when the bot starts: late enough that a never-used cooldown
\* (timestamp 1) has long expired.
StartTime == 100

\* The event loop handles one chat line: event_message, run to completion
\* with no other handler in between.
Handle(msg, rnd) ==
    \E w \in {event_message(World(self, db), msg, now, rnd)} :
        /\ self' = w.self
        /\ db' = w.db
        /\ sent' = w.sent
        /\ trace' = w.trace
        /\ message' = msg
        /\ now' = now
        /\ call' = NoCall
        /\ tasks' = tasks
        /\ scene' = scene

Quiet == message' = NoMessage /\ sent' = <<>> /\ trace' = EmptyTrace /\ call' = NoCall

\* A second passes.
Tick(max_time) ==
    /\ now < max_time
    /\ now' = now + 1
    /\ Quiet
    /\ UNCHANGED <<self, db, tasks, scene>>

(***************************************************************************)
(* SpecRaffle: the raffle commands and the chat lines of a raffle          *)
(***************************************************************************)

MaxPicked == 2

K_cat == <<"c", "a", "t">>
K_dog == <<"d", "o", "g">>

\* Who issues raffle commands, and who chats while a raffle runs.
RaffleCommanders == {AsStreamer, AsBob}
RaffleChatters == {AsAli, AsBob}

RaffleCommandLines ==
    {<<prefix \o T_raffle>>,
     <<prefix \o T_raffle, T_start>>,
     <<prefix \o T_raffle, T_start, K_cat>>,
     <<prefix \o T_raffle, T_startsub, K_cat>>,
     <<prefix \o T_raffle, T_stop>>}

RafflePickLines == {<<prefix \o T_raffle, T_pick>>}

RaffleChatLines == {<<K_cat>>, <<K_dog>>}

InitRaffle ==
    /\ now = StartTime
    /\ self = Bot(DefaultDouble, DefaultTriple, DefaultLose)
    /\ db = EmptyDb
    /\ message = NoMessage
    /\ sent = <<>>
    /\ trace = EmptyTrace
    /\ call = NoCall
    /\ tasks = {}
    /\ scene = NoSources

RaffleCommand ==
    \E author \in RaffleCommanders, line \in RaffleCommandLines :
        Handle(Message(author, line), NoRnd)

RafflePick ==
    \E author \in RaffleCommanders, line \in RafflePickLines,
       pick \in 0..(Cardinality(RaffleChatters) - 1) :
        /\ Handle(Message(author, line), Rnd(pick, 0, 0, 0, 0))
        /\ Len(self'.raffle_picked) <= MaxPicked

RaffleChat ==
    \E author \in RaffleChatters, line \in RaffleChatLines :
        Handle(Message(author, line), NoRnd)

NextRaffle == RaffleCommand \/ RafflePick \/ RaffleChat

SpecRaffle == InitRaffle /\ [][NextRaffle]_vars

(***************************************************************************)
(* SpecDal: the balance table under direct UserPointsDAL calls, each in a  *)
(* transaction of its own                                                  *)
(***************************************************************************)

MaxPoints == 3
MaxQuantity == 2
MaxMinutes == 1

DalUsers == {Ali, Bob}

\* The optional balance of a user: None without a row.
row_points(table, user) ==
    IF user \in DOMAIN table THEN Some(table[user].points) ELSE None

in_range(table) ==
    \A u \in DOMAIN table :
        /\ table[u].points \in (0 - MaxPoints)..MaxPoints
        /\ table[u].minutes \in 0..MaxMinutes

InitDal ==
    /\ now = StartTime
    /\ self = Bot(DefaultDouble, DefaultTriple, DefaultLose)
    /\ db = EmptyDb
    /\ message = NoMessage
    /\ sent = <<>>
    /\ trace = EmptyTrace
    /\ call = NoCall
    /\ tasks = {}
    /\ scene = NoSources

DalStep(op, user, quantity, table) ==
    /\ in_range(table)
    /\ db' = [db EXCEPT !.user_points = table]
    /\ call' = Call(op, user, quantity, row_points(db.user_points, user))
    /\ message' = NoMessage
    /\ sent' = <<>>
    /\ trace' = EmptyTrace
    /\ UNCHANGED <<now, self, tasks, scene>>

DalAddUser ==
    \E user \in DalUsers :
        /\ user \notin DOMAIN db.user_points
        /\ DalStep("add_user", user, 0, UserPointsDAL_add_user(db.user_points, user))

DalDeleteUser ==
    \E user \in DalUsers :
        DalStep("delete_user", user, 0, UserPointsDAL_delete_user(db.user_points, user))

DalIncrementPoints ==
    \E user \in DalUsers, quantity \in (0 - MaxQuantity)..MaxQuantity :
        DalStep("increment_points", user, quantity,
                UserPointsDAL_increment_points(db.user_points, user, quantity))

DalIncrementMinutes ==
    \E user \in DalUsers :
        DalStep("increment_minutes", user, 1,
                UserPointsDAL_increment_minutes(db.user_points, user, 1))

DalDecrementPoints ==
    \E user \in DalUsers, quantity \in (0 - MaxQuantity)..MaxQuantity :
        DalStep("decrement_points", user, quantity,
                UserPointsDAL_decrement_points(db.user_points, user, quantity))

NextDal ==
    \/ DalAddUser
    \/ DalDeleteUser
    \/ DalIncrementPoints
    \/ DalIncrementMinutes
    \/ DalDecrementPoints

SpecDal == InitDal /\ [][NextDal]_vars

\* C2: after a decrement_points(u, q) run alone, u has a row whose stored
\* balance is not negative, and is 0 when u's balance before (0 without a
\* row) was below q.
C2_DecrementFloors ==
    call.op = "decrement_points" =>
        LET balance == IF call.before = None THEN 0 ELSE call.before[1]
        IN  /\ call.user \in DOMAIN db.user_points
            /\ db.user_points[call.user].points >= 0
            /\ balance < call.quantity => db.user_points[call.user].points = 0

\* A decrement of a positive quantity for a user without a row: the row was
\* created and holds 0.
C2_Witness ==
    /\ call.op = "decrement_points"
    /\ call.before = None
    /\ call.quantity > 0
    /\ call.user \in DOMAIN db.user_points
    /\ db.user_points[call.user].points = 0

(***************************************************************************)
(* SpecBets: one viewer wagering, under several configured odds            *)
(***************************************************************************)

MaxBalance == 8
MaxTicks == 2

\* Configured <<double, triple, lose>> chances: the default odds, pure
\* odds, and odds that do not sum to 100.
BetsOdds == {<<45, 5, 50>>, <<100, 0, 0>>, <<0, 100, 0>>, <<20, 30, 50>>, <<10, 10, 10>>}

\* The balance the viewer's row holds when the bot starts (the database
\* file outlives the process).
StartPoints == {2, 4}

N_1 == <<"1">>
N_3 == <<"3">>

BetsLines ==
    {<<prefix \o bets_command>>,
     <<prefix \o bets_command, bets_all_in_word>>,
     <<prefix \o bets_command, N_1>>,
     <<prefix \o bets_command, N_3>>}

balance_of(user) == UserPointsDAL_get_points(db.user_points, user)

balances_capped(table) ==
    \A u \in DOMAIN table : table[u].points \in (0 - MaxPoints)..MaxBalance

InitBets ==
    /\ now = StartTime
    /\ \E odds \in BetsOdds : self = Bot(odds[1], odds[2], odds[3])
    /\ \E points \in StartPoints :
           db = [EmptyDb EXCEPT !.user_points = (Ali :> [points |-> points, minutes |-> 0])]
    /\ message = NoMessage
    /\ sent = <<>>
    /\ trace = EmptyTrace
    /\ call = NoCall
    /\ tasks = {}
    /\ scene = NoSources

Bet ==
    \E line \in BetsLines, r \in 0..(Hundred - 1) :
        /\ Handle(Message(AsAli, line), Rnd(0, r, 0, 0, 0))
        /\ balances_capped(db'.user_points)

BetsTick == Tick(StartTime + MaxTicks)

NextBets == Bet \/ BetsTick

SpecBets == InitBets /\ [][NextBets]_vars

\* C3: the band a draw falls in is the one of the configured chances: loss
\* for [1, lose], double for [lose+1, 100-triple], triple for
\* [100-triple+1, 100], so that each band holds as many draws as its chance.
C3_BandsMatchChances ==
    trace.number_bet > 0 =>
        LET n == trace.number_bet
            lose == self.bets_lose_chance
            triple == self.bets_triple_chance
        IN  /\ trace.outcome = "loss" <=> n \in 1..lose
            /\ trace.outcome = "double" <=> n \in (lose + 1)..(Hundred - triple)
            /\ trace.outcome = "triple" <=> n \in (Hundred - triple + 1)..Hundred

\* What a bet's outcome credits after the stake was debited.
payout_of(outcome, stake) ==
    CASE outcome = "loss" -> 0
      [] outcome = "double" -> 2 * stake
      [] outcome = "triple" -> 3 * stake
      [] OTHER -> 0 - 1

\* C4: every draw of an accepted bet selects exactly one of total loss,
\* double payout and triple payout: the handler ends without an error, with
\* one reply, and the stored balance is the snapshot minus the stake plus
\* the payout of that one outcome.
C4_ExactlyOneOutcome ==
    trace.number_bet > 0 =>
        /\ trace.outcome \in {"loss", "double", "triple"}
        /\ trace.raised = ""
        /\ Len(sent) = 1
        /\ sent[1].kind = (IF trace.outcome = "loss" THEN "bet_lost" ELSE "bet_won")
        /\ balance_of(message.author.name) =
               trace.user_points - trace.number_points
                   + payout_of(trace.outcome, trace.number_points)

\* A bet under odds other than the default whose draw is the first one past
\* the double band.
C4_Witness ==
    /\ trace.number_bet > 0
    /\ self.bets_triple_chance = 30
    /\ trace.number_bet = Hundred - self.bets_triple_chance
    /\ trace.outcome = "triple"

\* The line is the bets command.
is_bets(msg) ==
    /\ ~msg.echo
    /\ msg.content # <<>>
    /\ msg.content[1] = prefix \o bets_command

\* The user's last accepted bets invocation is less than bets_user_cooldown
\* seconds old.
on_bets_cooldown(user) ==
    /\ user \in DOMAIN self.bets_cooldowns
    /\ (now - self.bets_cooldowns[user]) < bets_user_cooldown

\* C16: a bets line of a user on cooldown gets no reply and changes no
\* state; any other bets line stores now as the user's cooldown timestamp,
\* whatever becomes of the stake.
C16_BetsCooldown ==
    [][is_bets(message') =>
           IF on_bets_cooldown(message'.author.name)
           THEN sent' = <<>> /\ self' = self /\ db' = db
           ELSE /\ message'.author.name \in DOMAIN self'.bets_cooldowns
                /\ self'.bets_cooldowns[message'.author.name] = now]_vars

\* A bet whose stake was rejected, with the timestamp refreshed all the same.
C16_Witness ==
    /\ is_bets(message)
    /\ Len(sent) = 1
    /\ sent[1].kind = "bet_below_minimum"
    /\ message.author.name \in DOMAIN self.bets_cooldowns
    /\ self.bets_cooldowns[message.author.name] = now

\* C17: off cooldown, the stake is the integer argument, the whole balance
\* for the all-in word, or the minimum without an argument; a stake below
\* the minimum or above the balance gets a chat message and the balance
\* stays; any other stake is the one wagered.
C17_StakeResolved ==
    [][(is_bets(message') /\ ~on_bets_cooldown(message'.author.name)) =>
           LET user == message'.author.name
               balance == UserPointsDAL_get_points(db.user_points, user)
               stake == IF Len(message'.content) = 1 THEN bets_minimum_bet
                        ELSE IF message'.content[2] = bets_all_in_word THEN balance
                        ELSE int(message'.content[2])
           IN  IF stake < bets_minimum_bet
               THEN /\ Len(sent') = 1
                    /\ sent'[1].kind = "bet_below_minimum"
                    /\ db'.user_points = db.user_points
               ELSE IF stake > balance
               THEN /\ Len(sent') = 1
                    /\ sent'[1].kind = "bet_above_balance"
                    /\ db'.user_points = db.user_points
               ELSE /\ trace'.number_bet > 0
                    /\ trace'.number_points = stake
                    /\ trace'.user_points = balance]_vars

\* An integer stake above the balance was turned down and the balance is
\* what it was.
C17_Witness ==
    /\ is_bets(message)
    /\ Len(message.content) = 2
    /\ message.content[2] = N_3
    /\ Len(sent) = 1
    /\ sent[1].kind = "bet_above_balance"
    /\ balance_of(message.author.name) = 2

\* C18: the balance the reply of an accepted bet announces is the balance
\* stored once the stake was debited and the payout credited.
C18_AnnouncedIsStored ==
    trace.number_bet > 0 =>
        /\ Len(sent) = 1
        /\ sent[1].y = balance_of(message.author.name)
        /\ trace.total_points = balance_of(message.author.name)

(***************************************************************************)
(* SpecSlots: one viewer at the slot machine                               *)
(***************************************************************************)

InitSlots ==
    /\ now = StartTime
    /\ self = Bot(DefaultDouble, DefaultTriple, DefaultLose)
    /\ \E points \in StartPoints :
           db = [EmptyDb EXCEPT !.user_points = (Ali :> [points |-> points, minutes |-> 0])]
    /\ message = NoMessage
    /\ sent = <<>>
    /\ trace = EmptyTrace
    /\ call = NoCall
    /\ tasks = {}
    /\ scene = NoSources

Spin ==
    \E r1, r2, r3 \in 0..Len(slots_emotes) :
        /\ Handle(Message(AsAli, <<prefix \o T_slots>>), Rnd(0, 0, r1, r2, r3))
        /\ balances_capped(db'.user_points)

SlotsTick == Tick(StartTime + MaxTicks)

NextSlots == Spin \/ SlotsTick

SpecSlots == InitSlots /\ [][NextSlots]_vars

\* The line is the slots command.
is_slots(msg) ==
    /\ ~msg.echo
    /\ msg.content # <<>>
    /\ msg.content[1] = prefix \o T_slots

\* The user's last slots invocation that passed the cooldown is less than
\* slots_user_cooldown seconds old.
on_slots_cooldown(user) ==
    /\ user \in DOMAIN self.slots_cooldowns
    /\ (now - self.slots_cooldowns[user]) < slots_user_cooldown

\* C19: a slots line off cooldown stores now as the user's timestamp; with
\* a balance below the stake nothing is debited; otherwise the balance
\* afterwards is the balance before, minus the stake, plus the payout, and
\* the payout is 0, twice, three times or five times the stake.
C19_SlotsBalance ==
    [][(is_slots(message') /\ ~on_slots_cooldown(message'.author.name)) =>
           LET user == message'.author.name
               balance == UserPointsDAL_get_points(db.user_points, user)
           IN  /\ user \in DOMAIN self'.slots_cooldowns
               /\ self'.slots_cooldowns[user] = now
               /\ IF balance < slots_bet
                  THEN db' = db /\ trace'.slots = <<>>
                  ELSE /\ trace'.points_win
                              \in {0, slots_bet * 2, slots_bet * 3, slots_bet * 5}
                       /\ UserPointsDAL_get_points(db'.user_points, user)
                              = balance - slots_bet + trace'.points_win]_vars

\* A spin that paid twice the stake, with the timestamp refreshed.
C19_Witness ==
    /\ is_slots(message)
    /\ trace.slots # <<>>
    /\ trace.points_win = slots_bet * 2
    /\ self.slots_cooldowns[message.author.name] = now
    /\ balance_of(message.author.name) = 4

\* The symbol at a reel position.
symbol_at(position) == Append(slots_emotes, slots_super_emote)[position + 1]

\* C5: three super symbols pay stake x 5, three identical ordinary symbols
\* stake x 3, exactly two equal symbols stake x 2, three distinct symbols
\* nothing.
C5_SlotsPayout ==
    trace.slots # <<>> =>
        LET a == symbol_at(trace.slots[1])
            b == symbol_at(trace.slots[2])
            c == symbol_at(trace.slots[3])
        IN  trace.points_win =
                IF a = b /\ b = c
                THEN IF a = slots_super_emote THEN slots_bet * 5 ELSE slots_bet * 3
                ELSE IF a = b \/ b = c \/ a = c THEN slots_bet * 2
                ELSE 0

(***************************************************************************)
(* SpecDispatch: custom text commands and sound commands under one name    *)
(***************************************************************************)

MaxCount == 2

C_hi == <<"h", "i">>
C_yo == <<"y", "o">>
F_wav == <<"f">>
N_0 == <<"0">>

\* Custom text commands are added by a subscriber.
AddLines ==
    {<<prefix \o T_add, C_hi, C_yo>>,
     <<prefix \o T_add, C_yo, C_hi>>}

\* Sound commands are added and removed by the broadcaster: free ones, with
\* a user cooldown and a global cooldown of one second.
SfxLines ==
    {<<prefix \o T_sfx, T_add, C_hi, F_wav, N_0, N_1, N_1>>,
     <<prefix \o T_sfx, T_remove, C_hi>>}

\* What viewers type to use a command.
TriggerLines == {<<prefix \o C_hi>>, <<prefix \o C_yo, C_hi>>}

counts_capped(d) ==
    /\ \A n \in DOMAIN d.user_commands : d.user_commands[n].count <= MaxCount
    /\ \A n \in DOMAIN d.sfx_commands : d.sfx_commands[n].count <= MaxCount

InitDispatch ==
    /\ now = StartTime
    /\ self = Bot(DefaultDouble, DefaultTriple, DefaultLose)
    /\ db = EmptyDb
    /\ message = NoMessage
    /\ sent = <<>>
    /\ trace = EmptyTrace
    /\ call = NoCall
    /\ tasks = {}
    /\ scene = NoSources

AddCommand ==
    \E line \in AddLines :
        Handle(Message(AsAli, line), NoRnd)

SfxAdmin ==
    \E line \in SfxLines :
        Handle(Message(AsStreamer, line), NoRnd)

Trigger ==
    \E author \in {AsAli, AsBob}, line \in TriggerLines :
        /\ Handle(Message(author, line), NoRnd)
        /\ counts_capped(db')

DispatchTick == Tick(StartTime + MaxTicks)

NextDispatch == AddCommand \/ SfxAdmin \/ Trigger \/ DispatchTick

SpecDispatch == InitDispatch /\ [][NextDispatch]_vars

\* C9: a line answered by a stored custom text command ends there: the
\* sound command of the same name is not looked up, so no sound is played
\* for that line.
C9_CustomCommandStops ==
    (\E i \in 1..Len(sent) : sent[i].kind = "user_command") => trace.played = <<>>

(***************************************************************************)
(* SpecPoints: everything that moves a balance                             *)
(***************************************************************************)

N_2 == <<"2">>
N_minus_1 == <<"-", "1">>

\* The broadcaster's adjustments of a viewer's balance.
PointsAdminLines ==
    {<<prefix \o points_name, T_add, Ali, N_2>>,
     <<prefix \o points_name, T_add, Ali, N_minus_1>>,
     <<prefix \o points_name, T_remove, Ali, N_1>>,
     <<prefix \o points_name, T_remove, Ali, N_minus_1>>,
     <<prefix \o T_sfx, T_add, C_hi, F_wav, N_1, N_1, N_1>>}

\* What the viewer types: the balance, a bet, the slots, a sound.
PointsViewerLines ==
    {<<prefix \o points_name>>,
     <<prefix \o bets_command>>,
     <<prefix \o T_slots>>,
     <<prefix \o C_hi>>}

\* Draws that reach each band of bets and each payout of slots.
PointsDraws ==
    {Rnd(0, 0, 0, 0, 0), Rnd(0, 50, 0, 0, 1), Rnd(0, 99, 0, 1, 2)}

points_capped(d) ==
    /\ balances_capped(d.user_points)
    /\ \A u \in DOMAIN d.user_points : d.user_points[u].minutes <= MaxMinutes * points_timer_interval
    /\ counts_capped(d)

InitPoints ==
    /\ now = StartTime
    /\ self = Bot(DefaultDouble, DefaultTriple, DefaultLose)
    /\ db = EmptyDb
    /\ message = NoMessage
    /\ sent = <<>>
    /\ trace = EmptyTrace
    /\ call = NoCall
    /\ tasks = {}
    /\ scene = NoSources

PointsAdmin ==
    \E line \in PointsAdminLines :
        /\ Handle(Message(AsStreamer, line), NoRnd)
        /\ points_capped(db')

PointsViewer ==
    \E line \in PointsViewerLines, rnd \in PointsDraws :
        /\ Handle(Message(AsAli, line), rnd)
        /\ points_capped(db')

\* The routine add_points_system fires: the channel is live or not, and the
\* viewer is in the chat of the one joined channel.
Accrual ==
    \E is_live \in BOOLEAN :
        \E w \in {add_points_system(World(self, db), is_live, <<{Ali}>>, points_timer_quantity)} :
            /\ points_capped(w.db)
            /\ db' = w.db
            /\ Quiet
            /\ UNCHANGED <<now, self, tasks, scene>>

PointsTick == Tick(StartTime + MaxTicks)

Next == PointsAdmin \/ PointsViewer \/ Accrual \/ PointsTick

Spec == InitPoints /\ [][Next]_vars

\* C1: every stored balance is at least 0.
C1_BalancesNonNegative ==
    \A u \in DOMAIN db.user_points : db.user_points[u].points >= 0

(***************************************************************************)
(* SpecSfx: two sound commands, two viewers and the clock                  *)
(***************************************************************************)

\* The broadcaster's sound commands: hi costs 1 with a user cooldown of 2
\* and a global cooldown of 1; yo is free with a user cooldown of 1 and a
\* global cooldown of 2.
SfxAddLines ==
    {<<prefix \o T_sfx, T_add, C_hi, F_wav, N_1, N_2, N_1>>,
     <<prefix \o T_sfx, T_add, C_yo, F_wav, N_0, N_1, N_2>>,
     <<prefix \o T_sfx, T_remove, C_hi>>}

SfxNames == {C_hi, C_yo}

SfxViewers == {AsAli, AsBob}

\* The balance the first viewer's row holds when the bot starts; the second
\* viewer has no row.
SfxStartPoints == {1, 3}

InitSfx ==
    /\ now = StartTime
    /\ self = Bot(DefaultDouble, DefaultTriple, DefaultLose)
    /\ \E points \in SfxStartPoints :
           db = [EmptyDb EXCEPT !.user_points = (Ali :> [points |-> points, minutes |-> 0])]
    /\ message = NoMessage
    /\ sent = <<>>
    /\ trace = EmptyTrace
    /\ call = NoCall
    /\ tasks = {}
    /\ scene = NoSources

SfxSetup ==
    \E line \in SfxAddLines :
        Handle(Message(AsStreamer, line), NoRnd)

SfxTrigger ==
    \E author \in SfxViewers, name \in SfxNames :
        /\ Handle(Message(author, <<prefix \o name>>), NoRnd)
        /\ counts_capped(db')

SfxTick == Tick(StartTime + MaxTicks)

NextSfx == SfxSetup \/ SfxTrigger \/ SfxTick

SpecSfx == InitSfx /\ [][NextSfx]_vars

\* The step is the viewer's line that triggers the stored sound command.
triggers(author, name) ==
    /\ message' = Message(author, <<prefix \o name>>)
    /\ name \in DOMAIN db.sfx_commands

\* The command was used less than its global cooldown ago.
on_global_cooldown(name) ==
    /\ name \in DOMAIN self.sfx_global_cooldown
    /\ (now - self.sfx_global_cooldown[name]) < db.sfx_commands[name].global_cooldown

\* The user's last successful use of the command is less than its user
\* cooldown old.
on_user_cooldown(user, name) ==
    /\ <<user, name>> \in DOMAIN self.sfx_user_cooldown
    /\ (now - self.sfx_user_cooldown[<<user, name>>]) < db.sfx_commands[name].user_cooldown

\* C11: a second use of a sound command by the same user less than
\* user_cooldown seconds after that user's last successful one gets no
\* reply and changes neither the counter, nor a cooldown timestamp, nor a
\* balance.
C11_UserCooldownRejects ==
    [][\A author \in SfxViewers, name \in SfxNames :
           (triggers(author, name) /\ on_user_cooldown(author.name, name))
               => (sent' = <<>> /\ db' = db /\ self' = self /\ trace'.played = <<>>)]_vars

\* A trigger that only the user cooldown rejects: the global cooldown is
\* over and the balance covers the cost.
C11_Witness ==
    /\ message.content = <<prefix \o C_hi>>
    /\ trace.handlers = <<"user_command", "sfx_command">>
    /\ C_hi \in DOMAIN db.sfx_commands
    /\ C_hi \in DOMAIN self.sfx_global_cooldown
    /\ <<message.author.name, C_hi>> \in DOMAIN self.sfx_user_cooldown
    /\ (now - self.sfx_global_cooldown[C_hi]) >= db.sfx_commands[C_hi].global_cooldown
    /\ (now - self.sfx_user_cooldown[<<message.author.name, C_hi>>])
           < db.sfx_commands[C_hi].user_cooldown
    /\ balance_of(message.author.name) >= db.sfx_commands[C_hi].cost
    /\ trace.played = <<>>
    /\ sent = <<>>

\* C12: a trigger that passes the global cooldown, the user cooldown and the
\* balance test debits the cost, adds one to the counter and sets both
\* cooldown timestamps to now, and play_sound is called with all of that
\* already stored; a rejected trigger changes nothing and calls no
\* play_sound.
C12_TriggerBooksThenPlays ==
    [][\A author \in SfxViewers, name \in SfxNames :
           triggers(author, name) =>
               LET user == author.name
                   sfxcommand == db.sfx_commands[name]
                   balance == UserPointsDAL_get_points(db.user_points, user)
               IN  IF \/ on_global_cooldown(name)
                      \/ on_user_cooldown(user, name)
                      \/ balance < sfxcommand.cost
                   THEN db' = db /\ self' = self /\ trace'.played = <<>>
                   ELSE /\ UserPointsDAL_get_points(db'.user_points, user)
                               = balance - sfxcommand.cost
                        /\ db'.sfx_commands[name].count = sfxcommand.count + 1
                        /\ self'.sfx_global_cooldown[name] = now
                        /\ self'.sfx_user_cooldown[<<user, name>>] = now
                        /\ trace'.played = <<sfxcommand.audio_file>>
                        /\ trace'.play_saw = Some([self |-> self', db |-> db'])]_vars

\* A paid sound was played: its cost left the balance, its counter moved and
\* both timestamps are now.
C12_Witness ==
    /\ message.content = <<prefix \o C_hi>>
    /\ trace.played = <<F_wav>>
    /\ db.sfx_commands[C_hi].cost = 1
    /\ db.sfx_commands[C_hi].count = 2
    /\ self.sfx_global_cooldown[C_hi] = now
    /\ self.sfx_user_cooldown[<<message.author.name, C_hi>>] = now
    /\ balance_of(message.author.name) = 1

(***************************************************************************)
(* SpecAccrual: the periodic routine over the joined channels              *)
(***************************************************************************)

MaxAccruals == 3

\* self.connected_channels, each channel as the set of its chatters.
JoinedChannels ==
    {<<{Ali}>>, <<{Ali, Bob}>>, <<{Ali}, {Bob}>>, <<{}, {Bob}>>}

\* The points the broadcaster's row holds when the bot starts; the
\* broadcaster is in no chat.
AccrualStartPoints == {0, 5}

\* One run of the routine: what is_live answered, the channels joined and
\* the quantity the routine was started with.
Routine(is_live, connected_channels, points) ==
    [op |-> "add_points_system", user |-> connected_channels,
     quantity |-> points, before |-> Some(is_live)]

InitAccrual ==
    /\ now = StartTime
    /\ self = Bot(DefaultDouble, DefaultTriple, DefaultLose)
    /\ \E points \in AccrualStartPoints :
           db = [EmptyDb EXCEPT
                     !.user_points = (Streamer :> [points |-> points, minutes |-> 0])]
    /\ message = NoMessage
    /\ sent = <<>>
    /\ trace = EmptyTrace
    /\ call = NoCall
    /\ tasks = {}
    /\ scene = NoSources

AccrualTick ==
    \E is_live \in BOOLEAN, connected_channels \in JoinedChannels :
        \E w \in {add_points_system(World(self, db), is_live, connected_channels,
                                    points_timer_quantity)} :
            /\ \A u \in DOMAIN w.db.user_points :
                   w.db.user_points[u].minutes <= MaxAccruals * points_timer_interval
            /\ db' = w.db
            /\ call' = Routine(is_live, connected_channels, points_timer_quantity)
            /\ message' = NoMessage
            /\ sent' = <<>>
            /\ trace' = EmptyTrace
            /\ UNCHANGED <<now, self, tasks, scene>>

\* A viewer asks for the balance between two runs.
AccrualChat ==
    \E author \in {AsAli, AsBob} :
        Handle(Message(author, <<prefix \o points_name>>), NoRnd)

NextAccrual == AccrualTick \/ AccrualChat

SpecAccrual == InitAccrual /\ [][NextAccrual]_vars

\* The row a user has, a missing row counting as zero points and minutes.
row_of(table, user) ==
    IF user \in DOMAIN table THEN table[user] ELSE [points |-> 0, minutes |-> 0]

\* C20: a run of the routine while the channel is not live changes no row;
\* a run while it is live credits every chatter of every joined channel the
\* configured quantity and the interval's minutes, and changes no other
\* user's row.
C20_AccrualCreditsChatters ==
    [][call'.op = "add_points_system" =>
           LET is_live == call'.before[1]
               connected_channels == call'.user
               chatters == UNION {connected_channels[i] : i \in DOMAIN connected_channels}
           IN  IF ~is_live THEN db' = db
               ELSE \A u \in chatters \cup DOMAIN db.user_points \cup DOMAIN db'.user_points :
                        IF u \in chatters
                        THEN /\ row_of(db'.user_points, u).points
                                    = row_of(db.user_points, u).points + call'.quantity
                             /\ row_of(db'.user_points, u).minutes
                                    = row_of(db.user_points, u).minutes + points_timer_interval
                        ELSE row_of(db'.user_points, u) = row_of(db.user_points, u)]_vars

(***************************************************************************)
(* SpecAdjust: points add and points remove, by the streamer and by others *)
(***************************************************************************)

\* A moderator who is not the channel owner.
Mia == <<"m", "i", "a">>
AsMia == Author(Mia, FALSE, TRUE, FALSE)

T_Add == <<"A", "d", "d">>

\* points add and points remove on two users, with a positive and a
\* negative quantity, without a quantity and with one that is no number.
AdjustLines ==
    {<<prefix \o points_name, c, u, q>> :
         c \in {T_add, T_Add, T_remove}, u \in {Ali, Bob}, q \in {N_1, N_2, N_minus_1}}
    \cup {<<prefix \o points_name, T_add, Ali>>,
          <<prefix \o points_name, T_remove, Ali, C_hi>>}

AdjustStartPoints == {0, 3}

InitAdjust ==
    /\ now = StartTime
    /\ self = Bot(DefaultDouble, DefaultTriple, DefaultLose)
    /\ \E points \in AdjustStartPoints :
           db = [EmptyDb EXCEPT
                     !.user_points = (Ali :> [points |-> points, minutes |-> 0])]
    /\ message = NoMessage
    /\ sent = <<>>
    /\ trace = EmptyTrace
    /\ call = NoCall
    /\ tasks = {}
    /\ scene = NoSources

AdjustByStreamer ==
    \E line \in AdjustLines :
        /\ Handle(Message(AsStreamer, line), NoRnd)
        /\ balances_capped(db'.user_points)

AdjustByOther ==
    \E author \in {AsAli, AsMia}, line \in AdjustLines :
        /\ Handle(Message(author, line), NoRnd)
        /\ balances_capped(db'.user_points)

NextAdjust == AdjustByStreamer \/ AdjustByOther

SpecAdjust == InitAdjust /\ [][NextAdjust]_vars

\* The sub-command of a points line, as points_command reads it.
points_subcommand(msg) == isolate_command(prefix, with_prefix(Tail(msg.content)))[1]

is_points_adjust(msg) ==
    /\ ~msg.echo
    /\ Len(msg.content) >= 2
    /\ msg.content[1] = prefix \o points_name
    /\ points_subcommand(msg) \in {T_add, T_remove}

\* C21: points add and points remove from a caller who is not the
\* broadcaster leave the points table as it was; from the broadcaster, with
\* a user and a quantity, they leave every other user's row as it was and
\* set that user's balance to the balance plus the quantity (add) or to the
\* balance minus the quantity, 0 if that is below 0 (remove).
C21_PointsAdjustByBroadcaster ==
    [][is_points_adjust(message') =>
           IF ~message'.author.is_broadcaster
           THEN db'.user_points = db.user_points
           ELSE (Len(message'.content) >= 4 /\ int_ok(message'.content[4])) =>
                LET user == message'.content[3]
                    quantity == int(message'.content[4])
                    before == row_of(db.user_points, user)
                    after == row_of(db'.user_points, user)
                IN  /\ \A u \in (DOMAIN db.user_points \cup DOMAIN db'.user_points) \ {user} :
                           /\ u \in DOMAIN db.user_points
                           /\ u \in DOMAIN db'.user_points
                           /\ db'.user_points[u] = db.user_points[u]
                    /\ after.minutes = before.minutes
                    /\ after.points =
                           IF points_subcommand(message') = T_add
                           THEN before.points + quantity
                           ELSE IF before.points - quantity < 0 THEN 0
                                ELSE before.points - quantity]_vars

\* The broadcaster removed points from a user down to 0 while another user
\* holds points.
C21_Witness ==
    /\ is_points_adjust(message)
    /\ message.author.is_broadcaster
    /\ points_subcommand(message) = T_remove
    /\ Len(sent) = 1
    /\ sent[1].kind = "points_removed"
    /\ sent[1].x = 2
    /\ balance_of(message.content[3]) = 0
    /\ \E u \in DOMAIN db.user_points : u # message.content[3] /\ db.user_points[u].points = 3

(***************************************************************************)
(* SpecAdd: custom text commands, added by whoever tries                   *)
(***************************************************************************)

C_Hi == <<"H", "i">>
C_h_i == <<"h", "!", "i">>
C_marks == <<"!", "?">>

\* add with a plain name, the name in upper case, the name with a mark
\* inside, a name of marks only, and without a text.
AddNameLines ==
    {<<prefix \o T_add, C_hi, C_yo>>,
     <<prefix \o T_add, C_Hi, C_hi>>,
     <<prefix \o T_add, C_h_i, F_wav>>,
     <<prefix \o T_add, C_yo, C_hi>>,
     <<prefix \o T_add, C_marks, C_hi>>,
     <<prefix \o T_add, C_hi>>}

\* The lines that use, edit and delete what was added.
AddUseLines == {<<prefix \o C_hi>>, <<prefix \o C_yo>>}
AddEditLines == {<<prefix \o T_edit, C_hi, F_wav>>, <<prefix \o T_delete, C_yo>>}

\* The channel owner, a subscriber, a moderator and a plain viewer.
AddCallers == {AsStreamer, AsAli, AsMia, AsBob}

InitAdd ==
    /\ now = StartTime
    /\ self = Bot(DefaultDouble, DefaultTriple, DefaultLose)
    /\ db = EmptyDb
    /\ message = NoMessage
    /\ sent = <<>>
    /\ trace = EmptyTrace
    /\ call = NoCall
    /\ tasks = {}
    /\ scene = NoSources

AddByCaller ==
    \E author \in AddCallers, line \in AddNameLines :
        /\ Handle(Message(author, line), NoRnd)
        /\ counts_capped(db')

AddUse ==
    \E line \in AddUseLines :
        /\ Handle(Message(AsBob, line), NoRnd)
        /\ counts_capped(db')

AddEdit ==
    \E author \in {AsAli, AsMia}, line \in AddEditLines :
        /\ Handle(Message(author, line), NoRnd)
        /\ counts_capped(db')

NextAdd == AddByCaller \/ AddUse \/ AddEdit

SpecAdd == InitAdd /\ [][NextAdd]_vars

is_add(msg) ==
    /\ ~msg.echo
    /\ msg.content # <<>>
    /\ msg.content[1] = prefix \o T_add

\* The name add stores a command under: the first word after add, put
\* through the command parser.
add_name(msg) == isolate_command(prefix, with_prefix(Tail(msg.content)))[1]

\* C22: add from a caller who is neither subscriber nor moderator changes
\* nothing and says nothing; from a subscriber or a moderator, with a name
\* and a text, it replies "already exists" and leaves the table as it was
\* when the normalized name is taken, and otherwise stores the command
\* under that name with counter 0, the caller as creator and the text
\* given, leaving the other commands as they were.
C22_AddBySubscriberOrMod ==
    [][is_add(message') =>
           IF ~(message'.author.is_subscriber \/ message'.author.is_mod)
           THEN db' = db /\ self' = self /\ sent' = <<>>
           ELSE Len(message'.content) >= 3 =>
                LET name == add_name(message')
                IN  IF name \in DOMAIN db.user_commands
                    THEN /\ db' = db
                         /\ Len(sent') = 1
                         /\ sent'[1].kind = "already_exists"
                    ELSE /\ DOMAIN db'.user_commands = DOMAIN db.user_commands \cup {name}
                         /\ db'.user_commands[name] =
                                [creator |-> message'.author.name,
                                 text |-> Tail(Tail(message'.content)),
                                 count |-> 0]
                         /\ \A n \in DOMAIN db.user_commands :
                                db'.user_commands[n] = db.user_commands[n]
                         /\ db'.user_points = db.user_points
                         /\ db'.sfx_commands = db.sfx_commands]_vars

\* A moderator's add of a name that a subscriber's command holds, used
\* once already: the reply is "already exists" and the command is as it was.
C22_Witness ==
    /\ is_add(message)
    /\ message.author.is_mod
    /\ Len(sent) = 1
    /\ sent[1].kind = "already_exists"
    /\ add_name(message) \in DOMAIN db.user_commands
    /\ db.user_commands[add_name(message)].creator = Ali
    /\ db.user_commands[add_name(message)].count = 1
    /\ db.user_commands[add_name(message)].text # Tail(Tail(message.content))

\* C23: every stored custom command has a name that is not empty and is
\* made of lower-case letters and digits only.
C23_StoredNamesNormalized ==
    \A name \in DOMAIN db.user_commands :
        /\ name # <<>>
        /\ \A i \in 1..Len(name) : name[i] \in LowerAlnum

(***************************************************************************)
(* SpecSfxAdd: sfx add with none, some and all of its optional arguments   *)
(***************************************************************************)

\* sfx add with no optional argument, with the cost only, with all three,
\* and with an optional argument that is no number; sfx remove.
SfxAddArgLines ==
    {<<prefix \o T_sfx, T_add, C_hi, F_wav>>,
     <<prefix \o T_sfx, T_add, C_hi, F_wav, N_1>>,
     <<prefix \o T_sfx, T_add, C_yo, F_wav, N_1, N_2, N_1>>,
     <<prefix \o T_sfx, T_add, C_yo, F_wav, C_hi>>,
     <<prefix \o T_sfx, T_add, C_yo, F_wav, N_1, C_hi>>,
     <<prefix \o T_sfx, T_remove, C_hi>>,
     <<prefix \o T_sfx, T_remove, C_yo>>}

InitSfxAdd ==
    /\ now = StartTime
    /\ self = Bot(DefaultDouble, DefaultTriple, DefaultLose)
    /\ \E points \in SfxStartPoints :
           db = [EmptyDb EXCEPT !.user_points = (Ali :> [points |-> points, minutes |-> 0])]
    /\ message = NoMessage
    /\ sent = <<>>
    /\ trace = EmptyTrace
    /\ call = NoCall
    /\ tasks = {}
    /\ scene = NoSources

SfxAddByStreamer ==
    \E line \in SfxAddArgLines :
        /\ Handle(Message(AsStreamer, line), NoRnd)
        /\ counts_capped(db')

SfxAddTrigger ==
    \E author \in SfxViewers, name \in SfxNames :
        /\ Handle(Message(author, <<prefix \o name>>), NoRnd)
        /\ counts_capped(db')

SfxAddTick == Tick(StartTime + MaxTicks)

NextSfxAdd == SfxAddByStreamer \/ SfxAddTrigger \/ SfxAddTick

SpecSfxAdd == InitSfxAdd /\ [][NextSfxAdd]_vars

\* The broadcaster's sfx add line with a name and a file.
is_sfx_add(msg) ==
    /\ ~msg.echo
    /\ msg.author.is_broadcaster
    /\ Len(msg.content) >= 4
    /\ msg.content[1] = prefix \o T_sfx
    /\ msg.content[2] = T_add

\* The optional argument at position i of the line: its number, or the
\* default when it is left out or is no number.
sfx_add_arg(msg, i) ==
    IF Len(msg.content) >= i /\ int_ok(msg.content[i]) THEN int(msg.content[i])
    ELSE SfxDefault

\* C24: the broadcaster's sfx add with a name that is free and a file
\* stores the sound command, each of cost, user cooldown and global cooldown
\* being the number given or 60 when the argument is left out or is not a
\* number.
C24_SfxAddDefaults ==
    [][(is_sfx_add(message') /\ message'.content[3] \notin DOMAIN db.sfx_commands) =>
           /\ message'.content[3] \in DOMAIN db'.sfx_commands
           /\ db'.sfx_commands[message'.content[3]] =
                  [audio_file |-> message'.content[4],
                   cost |-> sfx_add_arg(message', 5),
                   user_cooldown |-> sfx_add_arg(message', 6),
                   global_cooldown |-> sfx_add_arg(message', 7),
                   count |-> 0]]_vars

(***************************************************************************)
(* SpecParse: the command parser on every short line                       *)
(***************************************************************************)

MaxText == 3

\* The prefixes a configuration may give: the default one and the dot.
ParsePrefixes == {<<"!">>, <<".">>}

\* What a line is made of: the two prefixes, a lower-case letter, an
\* upper-case letter and the blank.
ParseChars == {"!", ".", "a", "B", " "}

ParseTexts == UNION {[1..n -> ParseChars] : n \in 0..MaxText}

\* A call of the parser: which function, its two arguments and, once it
\* returned, how it ended.
Applied(op, x, y, result) == [op |-> op, x |-> x, y |-> y, result |-> result]

\* The name as the handlers normalize it: the parser on prefix + name.
normalize(pfx, name) == isolate_command_text(pfx, pfx \o name)

InitParse ==
    /\ now = StartTime
    /\ self = Bot(DefaultDouble, DefaultTriple, DefaultLose)
    /\ db = EmptyDb
    /\ message = NoMessage
    /\ sent = <<>>
    /\ trace = EmptyTrace
    /\ tasks = {}
    /\ scene = NoSources
    /\ \E pfx \in ParsePrefixes, text \in ParseTexts :
           call = Applied("", pfx, text, Outcome(None, ""))

\* isolate_command(prefix, message) on the line drawn.
IsolateCommand ==
    /\ call.op = ""
    /\ call' = Applied("isolate_command", call.x, call.y,
                       isolate_command_text(call.x, call.y))
    /\ UNCHANGED <<now, self, db, message, sent, trace, tasks, scene>>

\* The normalization of the name drawn, and then of what the normalization
\* before returned.
Normalize ==
    /\ \/ call.op = ""
       \/ call.op = "normalize" /\ call.result.result # None
    /\ \E name \in {IF call.op = "" THEN call.y ELSE call.result.result[1]} :
           call' = Applied("normalize", call.x, name, normalize(call.x, name))
    /\ UNCHANGED <<now, self, db, message, sent, trace, tasks, scene>>

NextParse == IsolateCommand \/ Normalize

SpecParse == InitParse /\ [][NextParse]_vars

\* C25: isolate_command never raises; it returns none for a line that does
\* not start with the prefix, and otherwise the first word of the line,
\* lower-cased, stripped to [a-z0-9] and with a leading prefix removed
\* (the empty word when nothing is left).
C25_IsolateCommandTotal ==
    call.op = "isolate_command" =>
        /\ call.result.raised = ""
        /\ call.result.result =
               IF starts_with(call.y, call.x)
               THEN Some(sub_prefix(sub_non_alnum(lower(split(call.y)[1])), call.x))
               ELSE None

\* C26: normalizing a normalized name returns it unchanged, and a
\* normalized name is made of the characters a-z and 0-9 only.
C26_NormalizeIdempotent ==
    [][(call.op = "normalize" /\ call'.op = "normalize") =>
           /\ call'.result = call.result
           /\ \A i \in 1..Len(call.result.result[1]) :
                  call.result.result[1][i] \in LowerAlnum]_vars

(***************************************************************************)
(* SpecRank: get_rank on every small rank table                            *)
(***************************************************************************)

MaxRanks == 3
MaxRankPoints == 3

RankNames == {"Gatinho", "Gato", "Pantera"}
RankMinimums == {N_0, N_1, N_2}

\* A rank table is a dict: its names are distinct, and its items come in
\* the order they were written, which need not be the order of the minimums.
RankTables ==
    {ranks \in UNION {[1..n -> RankNames \X RankMinimums] : n \in 0..MaxRanks} :
         \A i, j \in 1..Len(ranks) : ranks[i][1] = ranks[j][1] => i = j}

InitRank ==
    /\ now = StartTime
    /\ self = Bot(DefaultDouble, DefaultTriple, DefaultLose)
    /\ db = EmptyDb
    /\ message = NoMessage
    /\ sent = <<>>
    /\ trace = EmptyTrace
    /\ tasks = {}
    /\ scene = NoSources
    /\ \E ranks \in RankTables, points \in (0 - 1)..MaxRankPoints :
           call = Applied("", ranks, points, "")

\* UserPointsDAL.get_rank(ranks, points) on the table and the points drawn.
GetRank ==
    /\ call.op = ""
    /\ call' = Applied("get_rank", call.x, call.y, get_rank(call.x, call.y))
    /\ UNCHANGED <<now, self, db, message, sent, trace, tasks, scene>>

NextRank == GetRank

SpecRank == InitRank /\ [][NextRank]_vars

\* The items of the table whose minimum is at most the points.
reached(ranks, points) == {i \in 1..Len(ranks) : int(ranks[i][2]) <= points}

\* C27: get_rank returns the name of the last item of the table whose
\* minimum is at most the points, and "Sem rank" when the table is empty or
\* every minimum is above the points.
C27_GetRankLastReached ==
    call.op = "get_rank" =>
        call.result =
            IF reached(call.x, call.y) = {} THEN "Sem rank"
            ELSE call.x[CHOOSE i \in reached(call.x, call.y) :
                            \A j \in reached(call.x, call.y) : j <= i][1]

\* A table that is not in the order of its minimums: the rank returned is
\* the last one reached although an earlier item has a higher minimum that
\* is reached too.
C27_Witness ==
    /\ call.op = "get_rank"
    /\ \E i, j \in reached(call.x, call.y) :
           /\ i < j
           /\ int(call.x[i][2]) > int(call.x[j][2])
           /\ call.result = call.x[j][1]

(***************************************************************************)
(* SpecRender: custom commands whose text holds variables                  *)
(***************************************************************************)

\* A subscriber's commands: hi greets $(touser), yo counts for $(user).
RenderAddLines ==
    {<<prefix \o T_add, C_hi, C_hi, V_touser>>,
     <<prefix \o T_add, C_yo, V_user, V_count>>}

\* A command used alone, with one argument and with two.
RenderUseLines ==
    {<<prefix \o C_hi>>,
     <<prefix \o C_hi, Bob>>,
     <<prefix \o C_hi, Bob, Ali>>,
     <<prefix \o C_yo, Bob>>}

InitRender ==
    /\ now = StartTime
    /\ self = Bot(DefaultDouble, DefaultTriple, DefaultLose)
    /\ db = EmptyDb
    /\ message = NoMessage
    /\ sent = <<>>
    /\ trace = EmptyTrace
    /\ call = NoCall
    /\ tasks = {}
    /\ scene = NoSources

RenderAdd ==
    \E line \in RenderAddLines :
        /\ Handle(Message(AsAli, line), NoRnd)
        /\ counts_capped(db')

RenderUse ==
    \E author \in {AsAli, AsMia, AsBob}, line \in RenderUseLines :
        /\ Handle(Message(author, line), NoRnd)
        /\ counts_capped(db')

NextRender == RenderAdd \/ RenderUse

SpecRender == InitRender /\ [][NextRender]_vars

\* The line uses a stored custom command.
uses_command(msg) ==
    /\ ~msg.echo
    /\ msg.content # <<>>
    /\ truthy(isolate_command(prefix, msg.content))
    /\ isolate_command(prefix, msg.content)[1] \in DOMAIN db.user_commands

\* C28: the reply of a custom command holds, where the stored text has
\* $(touser), the first word after the command and nothing more of the
\* line, or the name of the user who sent the line when no word follows.
C28_ToUserIsFirstArgument ==
    [][uses_command(message') =>
           LET name == isolate_command(prefix, message'.content)[1]
               user == message'.author.name
               to_user == IF Len(message'.content) >= 2 THEN message'.content[2] ELSE user
           IN  /\ Len(sent') = 1
               /\ sent'[1].text = render(db.user_commands[name].text,
                                         db'.user_commands[name].count, user, to_user)]_vars

(***************************************************************************)
(* SpecStartup: event_ready with the remote up or down, then the chat      *)
(***************************************************************************)

InitStartup ==
    /\ now = StartTime
    /\ self = [Bot(DefaultDouble, DefaultTriple, DefaultLose)
                   EXCEPT !.obs_websocket = "unconnected"]
    /\ \E points \in SfxStartPoints :
           db = [EmptyDb EXCEPT !.user_points = (Ali :> [points |-> points, minutes |-> 0])]
    /\ message = NoMessage
    /\ sent = <<>>
    /\ trace = EmptyTrace
    /\ call = NoCall
    /\ tasks = {}
    /\ scene = NoSources

\* The bot logged in: event_ready runs once, and the connection to the
\* remote succeeds or fails.
Ready ==
    /\ self.obs_websocket = "unconnected"
    /\ \E connected \in BOOLEAN :
           \E w \in {event_ready(World(self, db), connected)} :
               /\ self' = w.self
               /\ db' = w.db
    /\ Quiet
    /\ UNCHANGED <<now, tasks, scene>>

StartupSetup ==
    /\ self.obs_websocket # "unconnected"
    /\ \E line \in SfxAddLines :
           /\ Handle(Message(AsStreamer, line), NoRnd)
           /\ counts_capped(db')

StartupTrigger ==
    /\ self.obs_websocket # "unconnected"
    /\ \E author \in SfxViewers, name \in SfxNames :
           /\ Handle(Message(author, <<prefix \o name>>), NoRnd)
           /\ counts_capped(db')

\* The chat that is no sound: a viewer asks for the balance.
StartupChat ==
    /\ self.obs_websocket # "unconnected"
    /\ Handle(Message(AsAli, <<prefix \o points_name>>), NoRnd)
    /\ counts_capped(db')

StartupTick == Tick(StartTime + MaxTicks)

NextStartup == Ready \/ StartupSetup \/ StartupTrigger \/ StartupChat \/ StartupTick

SpecStartup == InitStartup /\ [][NextStartup]_vars

\* C29: once the connection to the remote failed at startup, a line that
\* triggers a stored sound command debits no points, increments no counter
\* and plays no sound.
C29_FailedConnectDisablesSfx ==
    [][\A author \in SfxViewers, name \in SfxNames :
           (self.obs_websocket = "failed" /\ triggers(author, name)) =>
               /\ \A u \in DOMAIN db'.user_points :
                      UserPointsDAL_get_points(db'.user_points, u)
                          = UserPointsDAL_get_points(db.user_points, u)
               /\ db'.sfx_commands = db.sfx_commands
               /\ trace'.played = <<>>]_vars

(***************************************************************************)
(* SpecStall: chat while one sound waits for the remote                    *)
(***************************************************************************)

\* Who types what besides the sound: the broadcaster stores the sound and
\* adds points, a subscriber adds a custom command and bets, a viewer uses
\* the custom command, a moderator deletes it.
StallChatLines ==
    {<<AsStreamer, <<prefix \o T_sfx, T_add, C_hi, F_wav, N_0, N_1, N_1>>>>,
     <<AsStreamer, <<prefix \o points_name, T_add, Ali, N_2>>>>,
     <<AsAli, <<prefix \o T_add, C_yo, C_hi>>>>,
     <<AsAli, <<prefix \o bets_command>>>>,
     <<AsBob, <<prefix \o C_yo>>>>,
     <<AsMia, <<prefix \o T_delete, C_yo>>>>}

StallStartPoints == {2}

\* A bet lost and a bet won.
StallDraws == {Rnd(0, 0, 0, 0, 0), Rnd(0, 99, 0, 0, 0)}

InitStall ==
    /\ now = StartTime
    /\ self = Bot(DefaultDouble, DefaultTriple, DefaultLose)
    /\ \E points \in StallStartPoints :
           db = [EmptyDb EXCEPT !.user_points = (Ali :> [points |-> points, minutes |-> 0])]
    /\ message = NoMessage
    /\ sent = <<>>
    /\ trace = EmptyTrace
    /\ call = NoCall
    /\ tasks = {}
    /\ scene = NoSources

\* A chat line while no sound is waiting.
StallChat ==
    /\ tasks = {}
    /\ \E chat \in StallChatLines, rnd \in StallDraws :
           /\ Handle(Message(chat[1], chat[2]), rnd)
           /\ points_capped(db')

\* A viewer triggers the sound and the remote does not report its end:
\* sfx_command stays in play_sound.
SfxSuspend ==
    /\ tasks = {}
    /\ \E author \in {AsAli, AsBob} :
           \E w \in {event_message(World(self, db),
                                   Message(author, <<prefix \o C_hi>>), now, NoRnd)} :
               /\ w.trace.played # <<>>
               /\ self' = w.self
               /\ db' = suspended_in_play_sound(World(self, db), w).db
               /\ sent' = w.sent
               /\ trace' = w.trace
               /\ message' = Message(author, <<prefix \o C_hi>>)
               /\ tasks' = {[cmd |-> C_hi, op |-> "play_sound", user |-> author.name]}
    /\ call' = NoCall
    /\ UNCHANGED <<now, scene>>

\* A chat line while the sound is waiting.
StallChatMeanwhile ==
    /\ tasks # {}
    /\ \E chat \in StallChatLines, rnd \in StallDraws :
           \E w \in {database_is_locked(
                         World(self, db),
                         event_message(World(self, db), Message(chat[1], chat[2]), now, rnd))} :
               /\ points_capped(w.db)
               /\ self' = w.self
               /\ db' = w.db
               /\ sent' = w.sent
               /\ trace' = w.trace
               /\ message' = Message(chat[1], chat[2])
    /\ call' = NoCall
    /\ UNCHANGED <<now, tasks, scene>>

\* The remote reports the sound as ended: play_sound returns, the handler's
\* session commits the counter.
SfxResume ==
    /\ \E task \in tasks :
           /\ db' = [db EXCEPT !.sfx_commands = SFXCommandDAL_increment_counter(@, task.cmd)]
           /\ tasks' = tasks \ {task}
    /\ points_capped(db')
    /\ Quiet
    /\ UNCHANGED <<now, self, scene>>

StallTick == Tick(StartTime + 1)

NextStall == StallChat \/ SfxSuspend \/ StallChatMeanwhile \/ SfxResume \/ StallTick

SpecStall == InitStall /\ [][NextStall]_vars

\* C30: a chat line handled while a sound waits in play_sound ends without
\* an exception, and the broadcaster's points add among them stores the
\* balance plus the quantity.
C30_StallDoesNotBlockChat ==
    [][(tasks # {} /\ tasks' = tasks /\ ~message'.echo) =>
           /\ trace'.raised = ""
           /\ (is_points_adjust(message') /\ message'.author.is_broadcaster) =>
                  UserPointsDAL_get_points(db'.user_points, message'.content[3])
                      = UserPointsDAL_get_points(db.user_points, message'.content[3])
                            + int(message'.content[4])]_vars

(***************************************************************************)
(* SpecPlay: play_sound calls for one file, interleaved at their awaits    *)
(***************************************************************************)

\* On whose behalf play_sound is called.
PlayCallers == {Ali, Bob}

\* The scene when the first call is made: empty, or with a source of the
\* file's name left in it, still playing or ended.
PlayScenes ==
    {NoSources,
     source_name(F_wav) :> Source(None, "playing"),
     source_name(F_wav) :> Source(None, "ended")}

InitPlay ==
    /\ now = StartTime
    /\ self = Bot(DefaultDouble, DefaultTriple, DefaultLose)
    /\ db = EmptyDb
    /\ message = NoMessage
    /\ sent = <<>>
    /\ trace = EmptyTrace
    /\ call = NoCall
    /\ tasks = {}
    /\ scene \in PlayScenes

\* play_sound is called and runs to its first await.
PlayCall ==
    /\ \E user \in PlayCallers :
           /\ \A t \in tasks : t.user # user
           /\ tasks' = tasks \cup {PlaySound("GetCurrentScene", user, F_wav)}
           /\ call' = Applied("play_sound", source_name(F_wav), user, "GetCurrentScene")
    /\ message' = NoMessage
    /\ sent' = <<>>
    /\ trace' = EmptyTrace
    /\ UNCHANGED <<now, self, db, scene>>

\* The await of one call returns: the remote has handled the request and
\* the call runs on to its next await, or to its end.
PlayStep ==
    /\ \E t \in tasks :
           \E sc \in {remote(scene, t.op, source_name(t.audio_file), t.user)} :
               \E next \in {play_sound_next(t.op, sc, source_name(t.audio_file))} :
                   /\ scene' = sc
                   /\ tasks' = (tasks \ {t}) \cup
                                   (IF next \in {"returned", "KeyError"} THEN {}
                                    ELSE {PlaySound(next, t.user, t.audio_file)})
                   /\ call' = Applied(t.op, source_name(t.audio_file), t.user, next)
    /\ message' = NoMessage
    /\ sent' = <<>>
    /\ trace' = EmptyTrace
    /\ UNCHANGED <<now, self, db>>

\* The remote plays a source to its end.
MediaEnds ==
    /\ \E source \in DOMAIN scene :
           /\ scene[source].mediaState = "playing"
           /\ scene' = [scene EXCEPT ![source].mediaState = "ended"]
    /\ Quiet
    /\ UNCHANGED <<now, self, db, tasks>>

\* A source that no call created leaves the scene.
SourceRemoved ==
    /\ \E source \in DOMAIN scene :
           /\ scene[source].creator = None
           /\ scene' = [s \in DOMAIN scene \ {source} |-> scene[s]]
    /\ Quiet
    /\ UNCHANGED <<now, self, db, tasks>>

NextPlay == PlayCall \/ PlayStep \/ MediaEnds \/ SourceRemoved

SpecPlay == InitPlay /\ [][NextPlay]_vars

\* The call t makes its request in this step.
requests(t, op) == t \in tasks /\ t.op = op /\ t \notin tasks'

\* C31: CreateSource for the source sound-<file> is never issued while a
\* source of that name is in the scene.
C31_CreateSourceSerialized ==
    [][\A t \in tasks :
           requests(t, "CreateSource") =>
               source_name(t.audio_file) \notin DOMAIN scene]_vars

(***************************************************************************)
(* SpecFlags: the bot started under each configuration, then the chat      *)
(***************************************************************************)

\* Every setting of the four feature flags.
Configs == {Config(p, s, b, sl) : p \in BOOLEAN, s \in BOOLEAN, b \in BOOLEAN, sl \in BOOLEAN}

\* The broadcaster stores a free sound; a subscriber chats, triggers the
\* sound, spins, bets and asks for the balance.
FlagsChatLines ==
    {<<AsStreamer, <<prefix \o T_sfx, T_add, C_hi, F_wav, N_0, N_0, N_0>>>>,
     <<AsAli, <<C_hi>>>>,
     <<AsAli, <<prefix \o C_hi>>>>,
     <<AsAli, <<prefix \o T_slots>>>>,
     <<AsAli, <<prefix \o bets_command>>>>,
     <<AsAli, <<prefix \o points_name>>>>}

FlagsStartPoints == {2}

InitFlags ==
    /\ now = StartTime
    /\ self = Bot(DefaultDouble, DefaultTriple, DefaultLose)
    /\ \E points \in FlagsStartPoints :
           db = [EmptyDb EXCEPT !.user_points = (Ali :> [points |-> points, minutes |-> 0])]
    /\ message = NoMessage
    /\ sent = <<>>
    /\ trace = EmptyTrace
    /\ call = NoCall
    /\ tasks = {}
    /\ scene = NoSources

\* The bot is started again with a configuration: Bot.__init__ builds a
\* new instance over the database file that is there.
Restart ==
    /\ \E config \in Configs :
           /\ self' = BotWith(config, DefaultDouble, DefaultTriple, DefaultLose)
           /\ call' = Applied("__init__", config, <<>>, "")
    /\ message' = NoMessage
    /\ sent' = <<>>
    /\ trace' = EmptyTrace
    /\ UNCHANGED <<now, db, tasks, scene>>

FlagsChat ==
    \E chat \in FlagsChatLines, rnd \in StallDraws :
        /\ Handle(Message(chat[1], chat[2]), rnd)
        /\ points_capped(db')
        /\ counts_capped(db')

FlagsTick == Tick(StartTime + 1)

NextFlags == Restart \/ FlagsChat \/ FlagsTick

SpecFlags == InitFlags /\ [][NextFlags]_vars

\* The instance has the flag and the flag is set.
bets_are_enabled(s) == "bets_enabled" \in s.attributes /\ s.bets_enabled

slots_are_enabled(s) == "slots_enabled" \in s.attributes /\ s.slots_enabled

\* C32: after construction bets are enabled exactly when the bets flag and
\* the points flag are set, and slots exactly when the slots flag and the
\* points flag are set, whatever the sfx flag (and, for slots, the bets
\* flag).
C32_BetsAndSlotsNeedPointsOnly ==
    [][call'.op = "__init__" =>
           /\ bets_are_enabled(self') <=>
                  (call'.x.bets_enabled /\ call'.x.points_enabled)
           /\ slots_are_enabled(self') <=>
                  (call'.x.slots_enabled /\ call'.x.points_enabled)]_vars

\* C34: under every configuration, handling a chat line never reads an
\* attribute the instance does not have.
C34_NoUninitialisedRead ==
    [][~message'.echo => trace'.raised # "AttributeError"]_vars

(***************************************************************************)
(* SpecRace: sound triggers interleaved at their awaits, bets and spins    *)
(***************************************************************************)

\* How many sfx_command invocations the chat starts.
MaxHandlers == 2

\* The last second of the scenario.
RaceEnd == StartTime + 1

\* The chat besides the sound's trigger: a subscriber bets and spins.
RaceChatLines == {<<prefix \o bets_command>>, <<prefix \o T_slots>>}

\* The sound hi is stored with cost 1 and both cooldowns 2 seconds, and two
\* viewers have points.
InitRace ==
    /\ now = StartTime
    /\ self = Bot(DefaultDouble, DefaultTriple, DefaultLose)
    /\ db = [EmptyDb EXCEPT
                 !.user_points = (Ali :> [points |-> 2, minutes |-> 0])
                                     @@ (Bob :> [points |-> 2, minutes |-> 0]),
                 !.sfx_commands = SFXCommandDAL_create_command(@, C_hi, F_wav, 1, 2, 2)]
    /\ message = NoMessage
    /\ sent = <<>>
    /\ trace = EmptyTrace
    /\ call = NoCall
    /\ tasks = {}
    /\ scene = NoSources

\* A viewer sends the sound's line: no command is registered under it, no
\* custom command is stored under it, and sfx_command runs to its first
\* await, the lookup of the sound command.
RaceTrigger ==
    /\ Cardinality(tasks) < MaxHandlers
    /\ \E author \in {AsAli, AsBob} :
           /\ message' = Message(author, <<prefix \o C_hi>>)
           /\ tasks' = tasks \cup {SfxTask(C_hi, "get_command_by_name", author.name,
                                           None, Cardinality(tasks) + 1, 0)}
    /\ sent' = <<>>
    /\ trace' = enter(enter(World(self, db), "user_command"), "sfx_command").trace
    /\ call' = NoCall
    /\ UNCHANGED <<now, self, db, scene>>

\* One invocation's await returns and it runs to its next await.  An await
\* that writes returns once no other session holds the write transaction.
RaceResume ==
    /\ \E t \in tasks :
           /\ t.op \notin {"returned", "OperationalError"}
           /\ awaits_write(t) => \A o \in tasks : ~holds_write(o)
           /\ \E next \in {sfx_command_next(World(self, db), t, now)} :
                  /\ self' = next[1].self
                  /\ db' = next[1].db
                  /\ trace' = next[1].trace
                  /\ tasks' = (tasks \ {t}) \cup {next[2]}
    /\ message' = NoMessage
    /\ sent' = <<>>
    /\ call' = NoCall
    /\ UNCHANGED <<now, scene>>

\* An await that writes gives up waiting for the write transaction: the
\* invocation ends with "database is locked".
RaceBusyTimeout ==
    /\ \E t \in tasks :
           /\ awaits_write(t)
           /\ \E o \in tasks : holds_write(o)
           /\ tasks' = (tasks \ {t}) \cup {[t EXCEPT !.op = "OperationalError"]}
    /\ message' = NoMessage
    /\ sent' = <<>>
    /\ trace' = raise(World(self, db), "OperationalError").trace
    /\ call' = NoCall
    /\ UNCHANGED <<now, self, db, scene>>

\* A subscriber bets or spins, whether or not a sound holds the write
\* transaction.
RaceChat ==
    /\ \E line \in RaceChatLines, rnd \in {NoRnd} :
           \E w \in {IF \E o \in tasks : holds_write(o)
                     THEN database_is_locked(
                              World(self, db),
                              event_message(World(self, db), Message(AsAli, line), now, rnd))
                     ELSE event_message(World(self, db), Message(AsAli, line), now, rnd)} :
               /\ points_capped(w.db)
               /\ self' = w.self
               /\ db' = w.db
               /\ sent' = w.sent
               /\ trace' = w.trace
               /\ message' = Message(AsAli, line)
    /\ call' = NoCall
    /\ UNCHANGED <<now, tasks, scene>>

RaceTick == Tick(RaceEnd)

NextRace == RaceTrigger \/ RaceResume \/ RaceBusyTimeout \/ RaceChat \/ RaceTick

SpecRace == InitRace /\ [][NextRace]_vars

\* The timestamps of the table do not go down in this step.
non_decreasing(table_before, table_after) ==
    \A key \in DOMAIN table_before :
        key \in DOMAIN table_after => table_after[key] >= table_before[key]

\* C33: in the four cooldown tables the timestamp stored under a key never
\* decreases.
C33_CooldownStampsMonotonic ==
    [][/\ non_decreasing(self.sfx_global_cooldown, self'.sfx_global_cooldown)
       /\ non_decreasing(self.sfx_user_cooldown, self'.sfx_user_cooldown)
       /\ non_decreasing(self.bets_cooldowns, self'.bets_cooldowns)
       /\ non_decreasing(self.slots_cooldowns, self'.slots_cooldowns)]_vars

\* C37: of the invocations for one sound command that passed the cooldown
\* checks and called play_sound, no two did so less than the command's
\* global_cooldown seconds apart.
C37_OnePlaybackPerWindow ==
    \A t1 \in tasks, t2 \in tasks :
        (t1 # t2 /\ t1.cmd = t2.cmd /\ t1.played # None /\ t2.played # None
            /\ t1.played[1] <= t2.played[1]) =>
            t2.played[1] - t1.played[1] >= db.sfx_commands[t1.cmd].global_cooldown

(***************************************************************************)
(* SpecSfxName: sound commands stored under the names the streamer types   *)
(***************************************************************************)

\* The names a sound is stored under: plain, with an upper-case letter, and
\* with a mark inside.
SfxTypedNames == {C_hi, C_Hi, C_h_i}

\* sfx add of each name for one point, no cooldowns.
SfxNameLines ==
    {<<prefix \o T_sfx, T_add, name, F_wav, N_1, N_0, N_0>> : name \in SfxTypedNames}

InitSfxName ==
    /\ now = StartTime
    /\ self = Bot(DefaultDouble, DefaultTriple, DefaultLose)
    /\ \E points \in SfxStartPoints :
           db = [EmptyDb EXCEPT !.user_points = (Ali :> [points |-> points, minutes |-> 0])]
    /\ message = NoMessage
    /\ sent = <<>>
    /\ trace = EmptyTrace
    /\ call = NoCall
    /\ tasks = {}
    /\ scene = NoSources

SfxNameAdd ==
    \E line \in SfxNameLines :
        /\ Handle(Message(AsStreamer, line), NoRnd)
        /\ counts_capped(db')

\* A viewer types the prefix and the name as the streamer typed it.
SfxNameTrigger ==
    \E name \in SfxTypedNames :
        /\ Handle(Message(AsAli, <<prefix \o name>>), NoRnd)
        /\ counts_capped(db')

SfxNameTick == Tick(StartTime + MaxTicks)

NextSfxName == SfxNameAdd \/ SfxNameTrigger \/ SfxNameTick

SpecSfxName == InitSfxName /\ [][NextSfxName]_vars

\* C35: every sound command sfx_add accepted under a name is stored under
\* the key the trigger derives from the line prefix + name, upper-case and
\* non-alphanumeric characters included.
C35_StoredKeyIsTriggerKey ==
    \A name \in DOMAIN db.sfx_commands :
        isolate_command(prefix, <<prefix \o name>>) = Some(name)

(***************************************************************************)
(* SpecDebit: the handlers that debit a balance, one step per await        *)
(***************************************************************************)

\* How many debiting handlers are invoked in one run.
MaxDebits == 2

\* An invocation of bets, slots or the streamer's points remove: the await
\* it is suspended at, whose balance it debits and by how much, what
\* points_query returned to the handler, what decrement_points' get_user
\* read, and int(time()) as the handler read it.
DebitTask(kind, op, user, quantity, user_points, points, id, time_now) ==
    [kind |-> kind, op |-> op, user |-> user, quantity |-> quantity,
     user_points |-> user_points, points |-> points, id |-> id, time_now |-> time_now]

\* UserPointsDAL.decrement_points resumed at one of its two awaits: the
\* SELECT of get_user (a user without a row is added and the method starts
\* again), and the UPDATE, whose value is the literal 0 when the row read
\* does not cover the quantity and the SQL expression points - quantity
\* otherwise.
decrement_points_next(table, t) ==
    IF t.op = "get_user"
    THEN IF UserPointsDAL_get_user(table, t.user) # None
         THEN <<table, [t EXCEPT !.op = "UPDATE", !.points = table[t.user].points]>>
         ELSE <<UserPointsDAL_add_user(table, t.user), t>>
    ELSE <<IF (t.points - t.quantity) <= 0
           THEN [table EXCEPT ![t.user].points = 0]
           ELSE [table EXCEPT ![t.user].points = @ - t.quantity],
           [t EXCEPT !.op = "debited"]>>

\* The handler resumed at the await it is suspended at: the world after the
\* step and the invocation at its next await.
debit_next(w, t, rnd) ==
    CASE t.op = "points_query" ->
             LET user_points == points_query(w, t.user)
             IN  IF t.kind = "bets" /\ t.quantity < bets_minimum_bet
                 THEN <<send(w, Reply("bet_below_minimum", <<>>, t.user, 0, 0)),
                        [t EXCEPT !.op = "returned", !.user_points = user_points]>>
                 ELSE IF t.quantity > user_points
                 THEN <<send(w, Reply("bet_above_balance", <<>>, t.user, 0, 0)),
                        [t EXCEPT !.op = "returned", !.user_points = user_points]>>
                 ELSE <<w, [t EXCEPT !.op = "get_user", !.user_points = user_points]>>
      [] t.op \in {"get_user", "UPDATE"} ->
             <<[w EXCEPT !.db.user_points = decrement_points_next(@, t)[1]],
               decrement_points_next(w.db.user_points, t)[2]>>
      [] t.op = "debited" /\ t.kind = "bets" ->
             <<bets_draw(bets_odds(w), t.user, t.user_points, t.quantity, rnd.bet),
               [t EXCEPT !.op = "returned"]>>
      [] t.op = "debited" /\ t.kind = "slots" ->
             <<slots_spin(w, t.user, rnd.s1, rnd.s2, rnd.s3),
               [t EXCEPT !.op = "returned"]>>
      [] OTHER ->
             <<send(w, Reply("points_removed", <<>>, t.user, t.quantity, 0)),
               [t EXCEPT !.op = "returned"]>>

\* bets skips its cooldown check.
bets_begin_unchecked(w, user, time_now) ==
    [w EXCEPT !.self.bets_cooldowns = stamp(@, user, time_now)]

\* bets up to its first await: the cooldown check and, with nothing
\* between, the refresh of the user's timestamp.
bets_begin(w, user, time_now) ==
    IF (time_now - lookup(w.self.bets_cooldowns, user, NeverUsed)) < bets_user_cooldown
    THEN w
    ELSE [w EXCEPT !.self.bets_cooldowns = stamp(@, user, time_now)]

\* slots up to its first await.
slots_begin(w, user, time_now) ==
    IF (time_now - lookup(w.self.slots_cooldowns, user, NeverUsed)) < slots_user_cooldown
    THEN w
    ELSE [w EXCEPT !.self.slots_cooldowns = stamp(@, user, time_now)]

\* The draws of a resumed handler: a bet that is lost and one that is won,
\* reels that pay and reels that do not.
DebitDraws == {Rnd(0, 0, 0, 0, 0), Rnd(0, 99, 0, 1, 2)}

\* The balance of the viewer's row when the bot starts.
DebitStartPoints == {3}

InitDebit ==
    /\ now = StartTime
    /\ self = Bot(DefaultDouble, DefaultTriple, DefaultLose)
    /\ \E points \in DebitStartPoints :
           db = [EmptyDb EXCEPT !.user_points = (Ali :> [points |-> points, minutes |-> 0])]
    /\ message = NoMessage
    /\ sent = <<>>
    /\ trace = EmptyTrace
    /\ call = NoCall
    /\ tasks = {}
    /\ scene = NoSources

\* A viewer's bet of the minimum: the handler runs to its first await, and
\* is suspended there when it passed the cooldown check.
DebitBets ==
    /\ Cardinality(tasks) < MaxDebits
    /\ \E author \in {AsAli, AsBob} :
           \E w \in {bets_begin(enter(World(self, db), "bets"), author.name, now)} :
               /\ message' = Message(author, <<prefix \o bets_command>>)
               /\ self' = w.self
               /\ trace' = w.trace
               /\ tasks' = IF w.self = self THEN tasks
                           ELSE tasks \cup {DebitTask("bets", "points_query", author.name,
                                                      bets_minimum_bet, 0, 0,
                                                      Cardinality(tasks) + 1, now)}
    /\ sent' = <<>>
    /\ call' = NoCall
    /\ UNCHANGED <<now, db, scene>>

DebitSlots ==
    /\ Cardinality(tasks) < MaxDebits
    /\ \E w \in {slots_begin(enter(World(self, db), "slots"), Ali, now)} :
           /\ self' = w.self
           /\ trace' = w.trace
           /\ tasks' = IF w.self = self THEN tasks
                       ELSE tasks \cup {DebitTask("slots", "points_query", Ali, slots_bet,
                                                  0, 0, Cardinality(tasks) + 1, now)}
    /\ message' = Message(AsAli, <<prefix \o T_slots>>)
    /\ sent' = <<>>
    /\ call' = NoCall
    /\ UNCHANGED <<now, db, scene>>

\* The streamer's points remove of two points: no check, it is suspended in
\* decrement_points right away.
DebitRemove ==
    /\ Cardinality(tasks) < MaxDebits
    /\ message' = Message(AsStreamer, <<prefix \o points_name, T_remove, Ali, N_2>>)
    /\ tasks' = tasks \cup {DebitTask("points_remove", "get_user", Ali, int(N_2), 0, 0,
                                      Cardinality(tasks) + 1, now)}
    /\ trace' = enter(World(self, db), "points_command").trace
    /\ sent' = <<>>
    /\ call' = NoCall
    /\ UNCHANGED <<now, self, db, scene>>

\* The event loop resumes one suspended handler, whichever.
DebitStep ==
    /\ \E t \in tasks, rnd \in DebitDraws :
           /\ t.op # "returned"
           /\ \E next \in {debit_next(World(self, db), t, rnd)} :
                  /\ points_capped(next[1].db)
                  /\ self' = next[1].self
                  /\ db' = next[1].db
                  /\ sent' = next[1].sent
                  /\ trace' = next[1].trace
                  /\ tasks' = (tasks \ {t}) \cup {next[2]}
    /\ message' = NoMessage
    /\ call' = NoCall
    /\ UNCHANGED <<now, scene>>

DebitTick == Tick(StartTime + MaxTicks)

NextDebit == DebitBets \/ DebitSlots \/ DebitRemove \/ DebitStep \/ DebitTick

SpecDebit == InitDebit /\ [][NextDebit]_vars

\* C36: whatever the order in which two handlers that debit the same user
\* (bets, slots, points remove) read the balance and issue their decrement,
\* the stored balance never becomes negative.
C36_BalanceNeverNegativeInterleaved ==
    \A user \in DOMAIN db.user_points : db.user_points[user].points >= 0

\* The invocations of bets that passed the cooldown check: only those are
\* suspended at an await.
passed_bets == {t \in tasks : t.kind = "bets"}

\* C38: however the bets handlers of one user interleave, no two of them
\* pass the cooldown check less than bets_user_cooldown seconds apart: the
\* check and the refresh of the timestamp run with no await between them.
C38_OneBetPerWindow ==
    \A t1 \in passed_bets, t2 \in passed_bets :
        (t1.id # t2.id /\ t1.user = t2.user /\ t1.time_now <= t2.time_now)
            => (t2.time_now - t1.time_now) >= bets_user_cooldown

\* Two bets of one user are suspended at the same time, the second one
\* having passed the check a whole window after the first, which has not
\* returned yet.
C38_Witness ==
    \E t1 \in passed_bets, t2 \in passed_bets :
        /\ t1.id # t2.id
        /\ t1.user = t2.user
        /\ t1.op \notin {"returned"}
        /\ t2.op \notin {"returned"}
        /\ t2.time_now - t1.time_now = bets_user_cooldown
        /\ self.bets_cooldowns[t1.user] = t2.time_now

(***************************************************************************)
(* SpecJokes: the joke command on files of one, two and three lines        *)
(***************************************************************************)

J_3 == <<"x", "d">>

\* What the joke file holds.
JokeFiles == {<<J_1>>, <<J_1, J_2>>, <<J_1, J_2, J_3>>}

\* What random.randint may return for these files, before it is wrapped
\* into the range asked for.
JokeDraws == 0..3

InitJokes ==
    /\ now = StartTime
    /\ \E lines \in JokeFiles :
           self = [Bot(DefaultDouble, DefaultTriple, DefaultLose)
                       EXCEPT !.jokes_filename = lines]
    /\ db = EmptyDb
    /\ message = NoMessage
    /\ sent = <<>>
    /\ trace = EmptyTrace
    /\ call = NoCall
    /\ tasks = {}
    /\ scene = NoSources

JokesChat ==
    \E author \in {AsAli, AsBob, AsStreamer}, r \in JokeDraws :
        /\ Handle(Message(author, <<prefix \o T_piadaruim>>), Rnd(r, 0, 0, 0, 0))
        /\ counts_capped(db')

JokesTick == Tick(StartTime + MaxTicks)

NextJokes == JokesChat \/ JokesTick

SpecJokes == InitJokes /\ [][NextJokes]_vars

\* The step is a joke command that is not on cooldown.
tells_joke ==
    /\ ~message'.echo
    /\ message'.content = <<prefix \o T_piadaruim>>
    /\ now > self.jokes_lastused + jokes_cooldown

\* C39: the joke command never indexes outside the joke list (for a file of
\* n >= 1 lines the line drawn is one of the n, so a joke is sent), and the
\* time of the last use changes only in a step that sent a joke.
C39_JokeIndexInRange ==
    [][/\ (tells_joke /\ Len(self.jokes_filename) >= 1) =>
              /\ trace'.raised # "IndexError"
              /\ Len(sent') = 1
              /\ \E i \in 1..Len(self.jokes_filename) :
                     sent'[1].cmd = self.jokes_filename[i]
       /\ self'.jokes_lastused # self.jokes_lastused => Len(sent') = 1]_vars

(***************************************************************************)
(* SpecPlayFair: play_sound as the bot calls it, on a fair remote          *)
(***************************************************************************)

\* The files played.
F_mp3 == <<"g">>
PlayFiles == {F_wav, F_mp3}

\* The scene when the first call is made: empty, or with sources of the
\* files' names left in it, still playing or ended.
PlayFairScenes ==
    {NoSources,
     source_name(F_wav) :> Source(None, "playing"),
     source_name(F_wav) :> Source(None, "ended"),
     (source_name(F_wav) :> Source(None, "ended"))
         @@ (source_name(F_mp3) :> Source(None, "playing"))}

InitPlayFair ==
    /\ now = StartTime
    /\ self = Bot(DefaultDouble, DefaultTriple, DefaultLose)
    /\ db = EmptyDb
    /\ message = NoMessage
    /\ sent = <<>>
    /\ trace = EmptyTrace
    /\ call = NoCall
    /\ tasks = {}
    /\ scene \in PlayFairScenes

\* sfx_command calls play_sound inside its database session, which holds
\* the write transaction until the call returned: the next call is made
\* after it.
PlayCallAlone ==
    /\ tasks = {}
    /\ \E user \in PlayCallers, sound \in PlayFiles :
           /\ tasks' = {PlaySound("GetCurrentScene", user, sound)}
           /\ call' = Applied("play_sound", source_name(sound), user, "GetCurrentScene")
    /\ message' = NoMessage
    /\ sent' = <<>>
    /\ trace' = EmptyTrace
    /\ UNCHANGED <<now, self, db, scene>>

NextPlayFair == PlayCallAlone \/ PlayStep \/ MediaEnds \/ SourceRemoved

\* The event loop resumes a call whose await returned, and the remote is
\* fair: what plays comes to its end and a source left in the scene is
\* taken out of it.
SpecPlayFair ==
    /\ InitPlayFair
    /\ [][NextPlayFair]_vars
    /\ WF_vars(PlayStep)
    /\ WF_vars(MediaEnds)
    /\ WF_vars(SourceRemoved)

\* The call of the user for the file has returned from DeleteSceneItem.
completed(user, sound) ==
    /\ call = Applied("DeleteSceneItem", source_name(sound), user, "returned")
    /\ source_name(sound) \notin DOMAIN scene

\* C40: on a fair remote every play_sound call returns, its last request
\* having removed the source it created, and DeleteSceneItem is requested
\* only for a source that this call created and whose media state is
\* ended, as the poll before saw it.
C40_PlaySoundCompletes ==
    /\ \A user \in PlayCallers, sound \in PlayFiles :
           (PlaySound("GetCurrentScene", user, sound) \in tasks) ~> completed(user, sound)
    /\ [][\A t \in tasks :
              requests(t, "DeleteSceneItem") =>
                  /\ source_name(t.audio_file) \in DOMAIN scene
                  /\ scene[source_name(t.audio_file)] = Source(Some(t.user), "ended")]_vars

\* A call for a file has created its source, played it and removed it,
\* while a source of the other file, left in the scene, is still there.
C40_Witness ==
    /\ completed(Bob, F_wav)
    /\ tasks = {}
    /\ source_name(F_mp3) \in DOMAIN scene

\* No user occurs twice in the list.
no_duplicates(list) ==
    \A i, j \in 1..Len(list) : i # j => list[i] # list[j]

RaffleState ==
    <<self.raffle_enabled, self.raffle_is_subscriber_only, self.raffle_wordkey,
      self.raffle_participants, self.raffle_picked, self.raffle_lastpick>>

\* The line is the raffle command with this sub-command.
is_raffle(msg, subcommand) ==
    /\ ~msg.echo
    /\ Len(msg.content) >= 2
    /\ msg.content[1] = prefix \o T_raffle
    /\ msg.content[2] = subcommand

\* C6: within one raffle (the picked list starts empty at every raffle
\* start), no user is picked twice: the picked list never holds a user twice.
C6_PickedOnce == no_duplicates(self.raffle_picked)

\* C7: once the broadcaster's `raffle start <keyword>` was handled the raffle
\* is not subscriber-only, and once the broadcaster's `raffle startsub
\* <keyword>` was handled it is.
C7_StartSetsMode ==
    /\ (message.author.is_broadcaster /\ is_raffle(message, T_start)
            /\ Len(message.content) >= 3)
           => ~self.raffle_is_subscriber_only
    /\ (message.author.is_broadcaster /\ is_raffle(message, T_startsub)
            /\ Len(message.content) >= 3)
           => self.raffle_is_subscriber_only

\* C8: a step that handles a raffle start, startsub, stop or pick line of a
\* non-broadcaster leaves every raffle state variable unchanged.
C8_NonBroadcasterFrame ==
    [][(/\ ~message'.echo
        /\ ~message'.author.is_broadcaster
        /\ \E sub \in {T_start, T_startsub, T_stop, T_pick} : is_raffle(message', sub))
           => RaffleState' = RaffleState]_vars

\* C13: once the broadcaster's `raffle start <keyword>` or `raffle startsub
\* <keyword>` was handled, the participant list and the picked list are
\* empty and the raffle is enabled with that keyword.
C13_StartResets ==
    (/\ message.author.is_broadcaster
     /\ is_raffle(message, T_start) \/ is_raffle(message, T_startsub)
     /\ Len(message.content) >= 3)
        => /\ self.raffle_participants = <<>>
           /\ self.raffle_picked = <<>>
           /\ self.raffle_enabled
           /\ self.raffle_wordkey = message.content[3]

\* A start after a raffle that had a winner (the last pick is never
\* cleared).
C13_Witness ==
    /\ message.author.is_broadcaster
    /\ is_raffle(message, T_start)
    /\ Len(message.content) >= 3
    /\ self.raffle_lastpick # <<>>
    /\ self.raffle_participants = <<>>
    /\ self.raffle_picked = <<>>
    /\ self.raffle_wordkey = K_cat

\* The list without its i-th element.
without(list, i) == SubSeq(list, 1, i - 1) \o SubSeq(list, i + 1, Len(list))

\* C14: the broadcaster's `raffle pick` on a pool that is not empty takes
\* exactly one participant out of the pool, appends that user to the picked
\* list and records it as the last pick; on an empty pool it sends the
\* empty message and leaves pool, picked list, last pick and enabled flag
\* alone.
C14_PickMovesOne ==
    [][(message'.author.is_broadcaster /\ is_raffle(message', T_pick))
           => IF self.raffle_participants # <<>>
              THEN \E i \in 1..Len(self.raffle_participants) :
                       /\ self'.raffle_participants = without(self.raffle_participants, i)
                       /\ self'.raffle_picked =
                              Append(self.raffle_picked, self.raffle_participants[i])
                       /\ self'.raffle_lastpick = self.raffle_participants[i]
              ELSE /\ Len(sent') = 1
                   /\ sent'[1].kind = "raffle_empty"
                   /\ self'.raffle_participants = self.raffle_participants
                   /\ self'.raffle_picked = self.raffle_picked
                   /\ self'.raffle_lastpick = self.raffle_lastpick
                   /\ self'.raffle_enabled = self.raffle_enabled]_vars

\* A pick out of a pool of two: one participant is left, the other is the
\* last pick and the last of the picked list.
C14_Witness ==
    /\ message.author.is_broadcaster
    /\ is_raffle(message, T_pick)
    /\ Len(sent) = 1
    /\ sent[1].kind = "raffle_picked"
    /\ Len(self.raffle_participants) = 1
    /\ self.raffle_picked # <<>>
    /\ self.raffle_lastpick = self.raffle_picked[Len(self.raffle_picked)]
    /\ self.raffle_lastpick # self.raffle_participants[1]

\* The raffle check of event_message lets the author of this line in: the
\* raffle is enabled, the line is the keyword, and the raffle is open to
\* all or the author is a subscriber.
enters(s, msg) ==
    /\ ~msg.echo
    /\ s.raffle_enabled
    /\ msg.content = <<s.raffle_wordkey>>
    /\ ~s.raffle_is_subscriber_only \/ msg.author.is_subscriber

UsageKinds ==
    {"usage_add", "usage_edit", "usage_delete", "usage_stat", "usage_points_add",
     "usage_points_remove", "usage_sfx", "usage_sfx_add", "usage_sfx_remove",
     "usage_raffle_start"}

\* C10: a step that answers with a usage reply sends nothing else and
\* changes no state of the bot or of the database.
C10_UsageErrorFrame ==
    [][(Len(sent') >= 1 /\ \E i \in 1..Len(sent') : sent'[i].kind \in UsageKinds)
           => (Len(sent') = 1 /\ self' = self /\ db' = db)]_vars

=============================================================================
